---- MODULE Spec2Model ----
(***************************************************************************)
(* RunTracker control kernel: workout lifecycle state machine              *)
(* (workout/workout_state.c), HR-wait control coordinator                  *)
(* (rtos/control_task.c), offline event ring (storage/buffer.c) and the    *)
(* BLE transmit task (comms/ble_tx.c).                                     *)
(***************************************************************************)
EXTENDS Integers, Sequences, FiniteSets, TLC

(* ---------- model bounds ---------- *)

\* number of clock advances explored outside an HR wait
MaxTicks == 3
\* number of clock advances explored in the lifecycle specification
MaxLifeTicks == 3
\* number of button events the input driver produces
MaxPresses == 3
\* number of transport-control events the BLE layer produces
MaxBleEvts == 2
\* number of pushes beyond the ring capacity explored in the buffer specification
MaxOverflow == 2
\* number of Buffer_Clear calls explored in the buffer specification
MaxClears == 1
\* number of workout events the producer hands to the transmit task
MaxEvents == 4
\* number of link / notification-subscription changes
MaxLinkChanges == 5
\* number of sends beyond a queue's length explored in the queue specification
MaxQueueOverflow == 1
\* number of receives explored in the queue specification
MaxReceives == 1

(* ---------- program constants ---------- *)

MAX_LAPS == 8
BUFFER_MAX_EVENTS == 16
BUTTON_QUEUE_LENGTH == 8
BLE_CTRL_QUEUE_LENGTH == 8
EVENT_QUEUE_LENGTH == 4
QUEUE_POLL_TIMEOUT_MS == 10
HR_CONFIRM_TIMEOUT_MS == 5000

\* uint32_t values are kept at their full width as two 16-bit words {hi, lo}
\* (the checker's own integers are narrower than 2^32)
W16 == 65536
U(n) == [hi |-> n \div W16, lo |-> n % W16]
Zero32 == U(0)
Add32(a, b) == [hi |-> (a.hi + b.hi + (a.lo + b.lo) \div W16) % W16,
                lo |-> (a.lo + b.lo) % W16]
Sub32(a, b) == [hi |-> (a.hi - b.hi - (IF a.lo < b.lo THEN 1 ELSE 0) + W16) % W16,
                lo |-> (a.lo - b.lo + W16) % W16]
Lt32(a, b) == a.hi < b.hi \/ (a.hi = b.hi /\ a.lo < b.lo)
Gt32(a, b) == Lt32(b, a)
Le32(a, b) == ~Lt32(b, a)

\* clock step of the lifecycle specification
LifeSteps == {U(1500)}
\* clock steps: half the HR timeout, and one millisecond more
TickSteps == {U(HR_CONFIRM_TIMEOUT_MS \div 2), U(HR_CONFIRM_TIMEOUT_MS \div 2 + 1)}
\* uptime at which the tasks are observed to start: fresh boot, or shortly
\* before the 32-bit millisecond counter wraps
StartTimes == {Zero32, Sub32(Zero32, U(HR_CONFIRM_TIMEOUT_MS \div 2))}

(* ---------- enumerations ---------- *)

WorkoutMode_t == {"MODE_4x500M", "MODE_5x1000M", "MODE_2x2000M", "MODE_1x4000M"}
ModeOrd(m) == CASE m = "MODE_4x500M"  -> 0
                [] m = "MODE_5x1000M" -> 1
                [] m = "MODE_2x2000M" -> 2
                [] m = "MODE_1x4000M" -> 3
ModeOf(n) == CHOOSE m \in WorkoutMode_t : ModeOrd(m) = n

STATE_IDLE == "STATE_IDLE"
STATE_RUNNING == "STATE_RUNNING"
STATE_REST == "STATE_REST"
STATE_PAUSED == "STATE_PAUSED"
STATE_COMPLETED == "STATE_COMPLETED"

CTRL_STATE_IDLE == "CTRL_STATE_IDLE"
CTRL_STATE_RUNNING == "CTRL_STATE_RUNNING"
CTRL_STATE_HR_MEASUREMENT == "CTRL_STATE_HR_MEASUREMENT"

ButtonEventType_t == {"BTN_START", "BTN_LAP", "BTN_STOP", "BTN_MODE_NEXT", "BTN_STATUS"}
BleCtrlEventType_t == {"BLE_CTRL_EVT_HR_DONE", "BLE_CTRL_EVT_CONNECTED", "BLE_CTRL_EVT_DISCONNECTED"}
EventType_t == <<"EVENT_WORKOUT_START", "EVENT_WORKOUT_STOP", "EVENT_LAP_COMPLETE",
                 "EVENT_WORKOUT_DONE", "EVENT_STATUS_UPDATE">>

VARIABLES
    now,              \* Time_GetMs(): 32-bit millisecond uptime
    ticks,            \* number of clock advances so far (bounds the exploration)
    pausedMs,         \* history: coordinator clock time that passed with the lifecycle Paused
    s_session,        \* workout_state.c: the workout session
    s_pauseStartMs,   \* workout_state.c: start of the current pause
    s_totalPausedMs,  \* workout_state.c: accumulated paused time
    s_currentState,   \* control_task.c: coordinator state
    s_hrWait,         \* control_task.c: HR wait record {startMs, active}
    g_buttonQueue,    \* buttons.c: button -> coordinator queue
    g_bleCtrlQueue,   \* control_task.c: BLE layer -> coordinator queue
    g_eventQueue,     \* ble_tx.c: coordinator -> transmit task queue
    polled,           \* the coordinator loop has iterated since the clock last advanced
    s_buffer,         \* buffer.c: ring storage
    s_head,           \* buffer.c: next write position
    s_tail,           \* buffer.c: next read position
    s_count,          \* buffer.c: number of stored events
    bleCb,            \* ble_manager.c: {connected, cccEnabled}
    s_wasConnected,   \* ble_tx.c: link state seen at the previous event
    txPc,             \* BleTxTask: position (blocked in receive, in the flush loop, at the send)
    txLocal,          \* BleTxTask: locals {event, connected}
    delivered,        \* history: enqueue numbers of the events DataSend accepted, in order
    nextSeq,          \* history: enqueue number given to the next produced event
    calls,            \* history: number of inputs produced so far {btn, ble, ev, link, clr, rcv}
    lastOp,           \* history: the operation that made the last step
    ret,              \* history: what that operation returned
    waitLog,          \* history: the current / last HR wait
    wire,             \* history: the event last serialised, its record then and at its first serialisation
    rd,               \* a reader inside Workout_GetElapsedMs: position, locals, and the atomic values
    bufLog            \* history: pushes and pops since the ring was last empty-initialised

clockVars == <<now, ticks, pausedMs>>
lifeVars == <<s_session, s_pauseStartMs, s_totalPausedMs>>
coordVars == <<s_currentState, s_hrWait, waitLog>>
queueVars == <<g_buttonQueue, g_bleCtrlQueue>>
ringVars == <<s_buffer, s_head, s_tail, s_count>>
txTaskVars == <<s_wasConnected, txPc, txLocal, delivered, wire, rd>>
vars == <<now, ticks, pausedMs, s_session, s_pauseStartMs, s_totalPausedMs, s_currentState, s_hrWait,
          g_buttonQueue, g_bleCtrlQueue, g_eventQueue, polled, s_buffer, s_head, s_tail,
          s_count, bleCb, s_wasConnected, txPc, txLocal, delivered, nextSeq, calls,
          lastOp, ret, waitLog, wire, rd, bufLog>>

(***************************************************************************)
(* Workout lifecycle state machine (workout_state.c).  The functions are   *)
(* operators on the module state w = {s_session, s_pauseStartMs,           *)
(* s_totalPausedMs} and the clock reading t; each yields the new module    *)
(* state and the value the C function returns.                             *)
(***************************************************************************)

NoLap == [lap_number |-> 0, lap_time_ms |-> Zero32, split_time_ms |-> Zero32]

\* setModeConfig: the constants derived from the mode tag
setModeConfig(mode) ==
    CASE mode = "MODE_4x500M"  -> [mode |-> mode, total_laps |-> 4, lap_distance_m |-> 500,  rest_time_sec |-> 60]
      [] mode = "MODE_5x1000M" -> [mode |-> mode, total_laps |-> 5, lap_distance_m |-> 1000, rest_time_sec |-> 90]
      [] mode = "MODE_2x2000M" -> [mode |-> mode, total_laps |-> 2, lap_distance_m |-> 2000, rest_time_sec |-> 120]
      [] mode = "MODE_1x4000M" -> [mode |-> mode, total_laps |-> 1, lap_distance_m |-> 4000, rest_time_sec |-> 0]

\* memset(&s_session, 0, ...); state = STATE_IDLE; setModeConfig(mode)
ZeroSession(mode) ==
    [config |-> setModeConfig(mode), state |-> STATE_IDLE, current_lap |-> 0,
     workout_start_ms |-> Zero32, lap_start_ms |-> Zero32, laps |-> [i \in 0 .. MAX_LAPS - 1 |-> NoLap]]

Workout_Init ==
    [s_session |-> ZeroSession("MODE_4x500M"), s_pauseStartMs |-> Zero32, s_totalPausedMs |-> Zero32]

Workout_GetState(w) == w.s_session.state

\* Workout_SetMode that is refused only while Running
Workout_SetMode_WhenNotRunning(w, mode) ==
    IF w.s_session.state = STATE_RUNNING
    THEN [w |-> w, ret |-> FALSE]
    ELSE [w |-> [w EXCEPT !.s_session.config = setModeConfig(mode)], ret |-> TRUE]

Workout_SetMode(w, mode) ==
    IF w.s_session.state # STATE_IDLE
    THEN [w |-> w, ret |-> FALSE]
    ELSE [w |-> [w EXCEPT !.s_session.config = setModeConfig(mode)], ret |-> TRUE]

\* Workout_CycleMode that is also accepted once the workout is Completed
Workout_CycleMode_WhenCompleted(w) ==
    IF w.s_session.state \notin {STATE_IDLE, STATE_COMPLETED}
    THEN [w |-> w, ret |-> FALSE]
    ELSE [w |-> [w EXCEPT !.s_session.config =
                     setModeConfig(ModeOf((ModeOrd(w.s_session.config.mode) + 1) % 4))],
          ret |-> TRUE]

Workout_CycleMode(w) ==
    IF w.s_session.state # STATE_IDLE
    THEN [w |-> w, ret |-> FALSE]
    ELSE [w |-> [w EXCEPT !.s_session.config =
                     setModeConfig(ModeOf((ModeOrd(w.s_session.config.mode) + 1) % 4))],
          ret |-> TRUE]

\* Workout_Start whose resume adds the pause to the accumulator twice
Workout_Start_PauseTwice(w, t) ==
    CASE w.s_session.state = STATE_IDLE ->
            [w |-> [w EXCEPT !.s_session.state = STATE_RUNNING,
                             !.s_session.current_lap = 1,
                             !.s_session.workout_start_ms = t,
                             !.s_session.lap_start_ms = t,
                             !.s_totalPausedMs = Zero32],
             ret |-> TRUE]
      [] w.s_session.state = STATE_PAUSED ->
            [w |-> [w EXCEPT !.s_session.state = STATE_RUNNING,
                             !.s_totalPausedMs = Add32(Add32(w.s_totalPausedMs, Sub32(t, w.s_pauseStartMs)),
                                                       Sub32(t, w.s_pauseStartMs))],
             ret |-> TRUE]
      [] OTHER -> [w |-> w, ret |-> FALSE]

Workout_Start(w, t) ==
    CASE w.s_session.state = STATE_IDLE ->
            [w |-> [w EXCEPT !.s_session.state = STATE_RUNNING,
                             !.s_session.current_lap = 1,
                             !.s_session.workout_start_ms = t,
                             !.s_session.lap_start_ms = t,
                             !.s_totalPausedMs = Zero32],
             ret |-> TRUE]
      [] w.s_session.state = STATE_PAUSED ->
            [w |-> [w EXCEPT !.s_session.state = STATE_RUNNING,
                             !.s_totalPausedMs = Add32(w.s_totalPausedMs, Sub32(t, w.s_pauseStartMs))],
             ret |-> TRUE]
      [] OTHER -> [w |-> w, ret |-> FALSE]

\* Workout_RecordLap whose completion test is > instead of >=
Workout_RecordLap_OffByOne(w, t) ==
    IF w.s_session.state # STATE_RUNNING
    THEN [w |-> w, ret |-> FALSE, lap |-> NoLap]
    ELSE LET s == w.s_session
             lapIndex == (s.current_lap + 255) % 256
             lap == [lap_number |-> s.current_lap,
                     lap_time_ms |-> Sub32(t, s.lap_start_ms),
                     split_time_ms |-> Sub32(Sub32(t, s.workout_start_ms), w.s_totalPausedMs)]
             w1 == [w EXCEPT !.s_session.laps[lapIndex] = lap]
         IN IF s.current_lap > s.config.total_laps
            THEN [w |-> [w1 EXCEPT !.s_session.state = STATE_COMPLETED],
                  ret |-> TRUE, lap |-> lap]
            ELSE [w |-> [w1 EXCEPT !.s_session.current_lap = (s.current_lap + 1) % 256,
                                   !.s_session.lap_start_ms = t],
                  ret |-> TRUE, lap |-> lap]

\* Workout_RecordLap that does not restart the lap timer
Workout_RecordLap_KeepLapStart(w, t) ==
    IF w.s_session.state # STATE_RUNNING
    THEN [w |-> w, ret |-> FALSE, lap |-> NoLap]
    ELSE LET s == w.s_session
             lapIndex == (s.current_lap + 255) % 256
             lap == [lap_number |-> s.current_lap,
                     lap_time_ms |-> Sub32(t, s.lap_start_ms),
                     split_time_ms |-> Sub32(Sub32(t, s.workout_start_ms), w.s_totalPausedMs)]
             w1 == [w EXCEPT !.s_session.laps[lapIndex] = lap]
         IN IF s.current_lap >= s.config.total_laps
            THEN [w |-> [w1 EXCEPT !.s_session.state = STATE_COMPLETED],
                  ret |-> TRUE, lap |-> lap]
            ELSE [w |-> [w1 EXCEPT !.s_session.current_lap = (s.current_lap + 1) % 256],
                  ret |-> TRUE, lap |-> lap]

Workout_RecordLap(w, t) ==
    IF w.s_session.state # STATE_RUNNING
    THEN [w |-> w, ret |-> FALSE, lap |-> NoLap]
    ELSE LET s == w.s_session
             lapIndex == (s.current_lap + 255) % 256
             lap == [lap_number |-> s.current_lap,
                     lap_time_ms |-> Sub32(t, s.lap_start_ms),
                     split_time_ms |-> Sub32(Sub32(t, s.workout_start_ms), w.s_totalPausedMs)]
             w1 == [w EXCEPT !.s_session.laps[lapIndex] = lap]
         IN IF s.current_lap >= s.config.total_laps
            THEN [w |-> [w1 EXCEPT !.s_session.state = STATE_COMPLETED],
                  ret |-> TRUE, lap |-> lap]
            ELSE [w |-> [w1 EXCEPT !.s_session.current_lap = (s.current_lap + 1) % 256,
                                   !.s_session.lap_start_ms = t],
                  ret |-> TRUE, lap |-> lap]

\* Workout_Pause that stamps the pause start before testing the state
Workout_Pause_StampFirst(w, t) ==
    IF w.s_session.state # STATE_RUNNING
    THEN [w |-> [w EXCEPT !.s_pauseStartMs = t], ret |-> FALSE]
    ELSE [w |-> [w EXCEPT !.s_session.state = STATE_PAUSED, !.s_pauseStartMs = t], ret |-> TRUE]

Workout_Pause(w, t) ==
    IF w.s_session.state # STATE_RUNNING
    THEN [w |-> w, ret |-> FALSE]
    ELSE [w |-> [w EXCEPT !.s_session.state = STATE_PAUSED, !.s_pauseStartMs = t], ret |-> TRUE]

Workout_Stop(w) ==
    IF w.s_session.state = STATE_IDLE \/ w.s_session.state = STATE_COMPLETED
    THEN [w |-> w, ret |-> FALSE]
    ELSE [w |-> [w EXCEPT !.s_session.state = STATE_COMPLETED], ret |-> TRUE]

\* Workout_Reset that goes back to the default mode, like Workout_Init
Workout_Reset_DefaultMode(w) ==
    [s_session |-> ZeroSession("MODE_4x500M"), s_pauseStartMs |-> Zero32, s_totalPausedMs |-> Zero32]

Workout_Reset(w) ==
    [s_session |-> ZeroSession(w.s_session.config.mode), s_pauseStartMs |-> Zero32, s_totalPausedMs |-> Zero32]

\* Workout_GetElapsedMs that does not take the current pause out
Workout_GetElapsedMs_CountsPause(w, t) ==
    IF w.s_session.state = STATE_IDLE
    THEN Zero32
    ELSE Sub32(Sub32(t, w.s_session.workout_start_ms), w.s_totalPausedMs)

Workout_GetElapsedMs(w, t) ==
    IF w.s_session.state = STATE_IDLE
    THEN Zero32
    ELSE LET elapsed == Sub32(Sub32(t, w.s_session.workout_start_ms), w.s_totalPausedMs)
         IN IF w.s_session.state = STATE_PAUSED
            THEN Sub32(elapsed, Sub32(t, w.s_pauseStartMs))
            ELSE elapsed

Workout_GetCurrentLapMs(w, t) ==
    IF w.s_session.state # STATE_RUNNING THEN Zero32 ELSE Sub32(t, w.s_session.lap_start_ms)

\* the lifecycle module state as one value, and its assignment
WS == [s_session |-> s_session, s_pauseStartMs |-> s_pauseStartMs, s_totalPausedMs |-> s_totalPausedMs]
SetWS(w) ==
    /\ s_session' = w.s_session
    /\ s_pauseStartMs' = w.s_pauseStartMs
    /\ s_totalPausedMs' = w.s_totalPausedMs

(***************************************************************************)
(* Offline event ring (buffer.c), as operators on                          *)
(* b = {s_buffer, s_head, s_tail, s_count}.  A WorkoutEvent_t carries the   *)
(* history field seq, the number under which it was produced.              *)
(***************************************************************************)

ZeroEvent == [type |-> EventType_t[1], timestamp_ms |-> Zero32, current_lap |-> 0,
              lap_data |-> NoLap, seq |-> 0]

Buffer_Init ==
    [s_buffer |-> [i \in 0 .. BUFFER_MAX_EVENTS - 1 |-> ZeroEvent],
     s_head |-> 0, s_tail |-> 0, s_count |-> 0]

\* Buffer_Push that does not advance the read position when the ring is full
Buffer_Push_KeepTail(b, e) ==
    [b |-> [b EXCEPT !.s_buffer[b.s_head] = e,
                     !.s_head = (b.s_head + 1) % BUFFER_MAX_EVENTS,
                     !.s_count = IF b.s_count >= BUFFER_MAX_EVENTS THEN b.s_count ELSE b.s_count + 1],
     ret |-> ~(b.s_count >= BUFFER_MAX_EVENTS)]

Buffer_Push(b, e) ==
    LET overflow == b.s_count >= BUFFER_MAX_EVENTS
        b1 == IF overflow
              THEN [b EXCEPT !.s_tail = (b.s_tail + 1) % BUFFER_MAX_EVENTS]
              ELSE [b EXCEPT !.s_count = b.s_count + 1]
    IN [b |-> [b1 EXCEPT !.s_buffer[b.s_head] = e,
                         !.s_head = (b.s_head + 1) % BUFFER_MAX_EVENTS],
        ret |-> ~overflow]

\* Buffer_Pop that reads the newest slot instead of the oldest
Buffer_Pop_Newest(b) ==
    IF b.s_count = 0
    THEN [b |-> b, ret |-> FALSE, evt |-> ZeroEvent]
    ELSE [b |-> [b EXCEPT !.s_head = (b.s_head + BUFFER_MAX_EVENTS - 1) % BUFFER_MAX_EVENTS,
                          !.s_count = b.s_count - 1],
          ret |-> TRUE,
          evt |-> b.s_buffer[(b.s_head + BUFFER_MAX_EVENTS - 1) % BUFFER_MAX_EVENTS]]

Buffer_Pop(b) ==
    IF b.s_count = 0
    THEN [b |-> b, ret |-> FALSE, evt |-> ZeroEvent]
    ELSE [b |-> [b EXCEPT !.s_tail = (b.s_tail + 1) % BUFFER_MAX_EVENTS,
                          !.s_count = b.s_count - 1],
          ret |-> TRUE,
          evt |-> b.s_buffer[b.s_tail]]

Buffer_GetCount(b) == b.s_count

Buffer_IsEmpty(b) == b.s_count = 0

Buffer_Clear(b) == [b EXCEPT !.s_head = 0, !.s_tail = 0, !.s_count = 0]

\* the ring as one value, and its assignment
BS == [s_buffer |-> s_buffer, s_head |-> s_head, s_tail |-> s_tail, s_count |-> s_count]
SetBS(b) ==
    /\ s_buffer' = b.s_buffer
    /\ s_head' = b.s_head
    /\ s_tail' = b.s_tail
    /\ s_count' = b.s_count

\* the events the ring holds, oldest first: slots s_tail .. s_tail + s_count - 1
Held(b) == [i \in 1 .. b.s_count |-> b.s_buffer[(b.s_tail + i - 1) % BUFFER_MAX_EVENTS]]

(***************************************************************************)
(* BLE link (ble_manager.c) and the queue send of the transmit task.       *)
(***************************************************************************)

BLE_IsConnected(cb) == cb.connected

\* DataSend: refused when not connected or when the peer has not enabled
\* notifications; the payload itself does not matter to the result
DataSend(cb) == cb.connected /\ cb.cccEnabled

\* BleTx_SendEvent: xQueueSend(g_eventQueue, pEvent, 0)
BleTx_SendEvent(q, e) ==
    IF Len(q) >= EVENT_QUEUE_LENGTH
    THEN [q |-> q, ret |-> FALSE]
    ELSE [q |-> Append(q, e), ret |-> TRUE]

(***************************************************************************)
(* Protocol codec (protocol.c): the wire record as the tuple of its text   *)
(* and number fields, in the order the format string prints them.          *)
(***************************************************************************)

Workout_ModeToString(mode) ==
    CASE mode = "MODE_4x500M"  -> "4x500m"
      [] mode = "MODE_5x1000M" -> "5x1000m"
      [] mode = "MODE_2x2000M" -> "2x2000m"
      [] mode = "MODE_1x4000M" -> "1x4000m"
      [] OTHER -> "UNKNOWN"

Workout_StateToString(state) ==
    CASE state = STATE_IDLE      -> "IDLE"
      [] state = STATE_RUNNING   -> "RUNNING"
      [] state = STATE_REST      -> "REST"
      [] state = STATE_PAUSED    -> "PAUSED"
      [] state = STATE_COMPLETED -> "COMPLETED"
      [] OTHER -> "UNKNOWN"

Protocol_SerializeEvent(e, w, t) ==
    CASE e.type = "EVENT_WORKOUT_START" ->
            <<"start", "mode", Workout_ModeToString(w.s_session.config.mode),
              "laps", w.s_session.config.total_laps, "ts", e.timestamp_ms>>
      [] e.type = "EVENT_LAP_COMPLETE" ->
            <<"lap", "lap", e.lap_data.lap_number, "lap_ms", e.lap_data.lap_time_ms,
              "split_ms", e.lap_data.split_time_ms, "ts", e.timestamp_ms>>
      [] e.type = "EVENT_WORKOUT_STOP" ->
            <<"stop", "laps", e.current_lap,
              "total_ms", Sub32(e.timestamp_ms, w.s_session.workout_start_ms),
              "ts", e.timestamp_ms>>
      [] e.type = "EVENT_WORKOUT_DONE" ->
            <<"done", "laps", w.s_session.config.total_laps,
              "total_ms", e.lap_data.split_time_ms, "ts", e.timestamp_ms>>
      [] e.type = "EVENT_STATUS_UPDATE" ->
            <<"status", "state", Workout_StateToString(w.s_session.state),
              "lap", e.current_lap, "elapsed_ms", Workout_GetElapsedMs(w, t)>>
      [] OTHER -> <<"unknown", "type", e.type>>

(***************************************************************************)
(* HR-wait control coordinator (control_task.c), as operators on           *)
(* c = {w, s_currentState, s_hrWait, g_eventQueue, nextSeq, waitLog}: the  *)
(* lifecycle module state, the coordinator's own state, the queue it sends *)
(* workout events to, and the history of the current HR wait.              *)
(***************************************************************************)

NoWait == [entered |-> FALSE, entryCtrl |-> CTRL_STATE_IDLE, entryState |-> STATE_IDLE,
           entryLap |-> 0, exits |-> 0, how |-> "none", events |-> 0,
           exitCtrl |-> CTRL_STATE_IDLE]

\* sendHrRequest: fire and forget; yields whether the request reached the link.
\* The caller ignores the result and no state of the coordinator depends on it.
sendHrRequest(cb) == BLE_IsConnected(cb) /\ DataSend(cb)

\* enterHrWaitState that forgets to mark the wait active
enterHrWaitState_NotActive(c, t) ==
    [c EXCEPT !.w = Workout_Pause(c.w, t).w,
              !.s_hrWait = [startMs |-> t, active |-> FALSE],
              !.s_currentState = CTRL_STATE_HR_MEASUREMENT,
              !.waitLog = [NoWait EXCEPT !.entered = TRUE,
                                         !.entryCtrl = c.s_currentState,
                                         !.entryState = c.w.s_session.state,
                                         !.entryLap = c.w.s_session.current_lap]]

\* enterHrWaitState that leaves the lifecycle as it finds it
enterHrWaitState_NoPause(c, t) ==
    [c EXCEPT !.s_hrWait = [startMs |-> t, active |-> TRUE],
              !.s_currentState = CTRL_STATE_HR_MEASUREMENT,
              !.waitLog = [NoWait EXCEPT !.entered = TRUE,
                                         !.entryCtrl = c.s_currentState,
                                         !.entryState = c.w.s_session.state,
                                         !.entryLap = c.w.s_session.current_lap]]

enterHrWaitState(c, t) ==
    [c EXCEPT !.w = Workout_Pause(c.w, t).w,
              !.s_hrWait = [startMs |-> t, active |-> TRUE],
              !.s_currentState = CTRL_STATE_HR_MEASUREMENT,
              !.waitLog = [NoWait EXCEPT !.entered = TRUE,
                                         !.entryCtrl = c.s_currentState,
                                         !.entryState = c.w.s_session.state,
                                         !.entryLap = c.w.s_session.current_lap]]

\* exitHrWaitState that does not resume the lifecycle
exitHrWaitState_NoResume(c, t, confirmed) ==
    LET r == Workout_RecordLap(c.w, t)
        evt == [type |-> IF Workout_GetState(r.w) = STATE_COMPLETED
                         THEN "EVENT_WORKOUT_DONE" ELSE "EVENT_LAP_COMPLETE",
                timestamp_ms |-> t, current_lap |-> 0, lap_data |-> r.lap,
                seq |-> c.nextSeq]
        q == IF r.ret THEN BleTx_SendEvent(c.g_eventQueue, evt).q ELSE c.g_eventQueue
        st == IF Workout_GetState(r.w) # STATE_COMPLETED
              THEN CTRL_STATE_RUNNING ELSE CTRL_STATE_IDLE
    IN [c EXCEPT !.w = r.w,
                 !.s_hrWait.active = FALSE,
                 !.s_currentState = st,
                 !.g_eventQueue = q,
                 !.nextSeq = IF r.ret THEN c.nextSeq + 1 ELSE c.nextSeq,
                 !.waitLog.exits = c.waitLog.exits + 1,
                 !.waitLog.events = c.waitLog.events + (IF r.ret THEN 1 ELSE 0),
                 !.waitLog.how = IF confirmed THEN "confirm" ELSE "abort",
                 !.waitLog.exitCtrl = st]

exitHrWaitState(c, t, confirmed) ==
    LET r == Workout_RecordLap(c.w, t)
        evt == [type |-> IF Workout_GetState(r.w) = STATE_COMPLETED
                         THEN "EVENT_WORKOUT_DONE" ELSE "EVENT_LAP_COMPLETE",
                timestamp_ms |-> t, current_lap |-> 0, lap_data |-> r.lap,
                seq |-> c.nextSeq]
        q == IF r.ret THEN BleTx_SendEvent(c.g_eventQueue, evt).q ELSE c.g_eventQueue
        resume == Workout_GetState(r.w) # STATE_COMPLETED
        w2 == IF resume THEN Workout_Start(r.w, t).w ELSE r.w
        st == IF resume THEN CTRL_STATE_RUNNING ELSE CTRL_STATE_IDLE
    IN [c EXCEPT !.w = w2,
                 !.s_hrWait.active = FALSE,
                 !.s_currentState = st,
                 !.g_eventQueue = q,
                 !.nextSeq = IF r.ret THEN c.nextSeq + 1 ELSE c.nextSeq,
                 !.waitLog.exits = c.waitLog.exits + 1,
                 !.waitLog.events = c.waitLog.events + (IF r.ret THEN 1 ELSE 0),
                 !.waitLog.how = IF confirmed THEN "confirm" ELSE "abort",
                 !.waitLog.exitCtrl = st]

\* handleButtonEvent whose Stop button ends the workout while Running
handleButtonEvent_StopCompletes(c, evt, t) ==
    CASE c.s_currentState = CTRL_STATE_IDLE ->
            IF evt.type = "BTN_START"
            THEN LET r == Workout_Start(c.w, t)
                 IN IF r.ret THEN [c EXCEPT !.w = r.w, !.s_currentState = CTRL_STATE_RUNNING]
                             ELSE [c EXCEPT !.w = r.w]
            ELSE c
      [] c.s_currentState = CTRL_STATE_RUNNING ->
            IF evt.type = "BTN_LAP" THEN enterHrWaitState(c, t)
            ELSE IF evt.type = "BTN_STOP" THEN [c EXCEPT !.w = Workout_Stop(c.w).w]
            ELSE c
      [] c.s_currentState = CTRL_STATE_HR_MEASUREMENT ->
            IF evt.type = "BTN_STOP"
            THEN [exitHrWaitState(c, t, FALSE) EXCEPT !.waitLog.how = "stop"]
            ELSE c
      [] OTHER -> c

\* handleButtonEvent whose Lap press during an HR wait opens the wait again
handleButtonEvent_LapRestartsWait(c, evt, t) ==
    CASE c.s_currentState = CTRL_STATE_IDLE ->
            IF evt.type = "BTN_START"
            THEN LET r == Workout_Start(c.w, t)
                 IN IF r.ret THEN [c EXCEPT !.w = r.w, !.s_currentState = CTRL_STATE_RUNNING]
                             ELSE [c EXCEPT !.w = r.w]
            ELSE c
      [] c.s_currentState = CTRL_STATE_RUNNING ->
            IF evt.type = "BTN_LAP" THEN enterHrWaitState(c, t)
            ELSE IF evt.type = "BTN_STOP" THEN [c EXCEPT !.w = Workout_Pause(c.w, t).w]
            ELSE c
      [] c.s_currentState = CTRL_STATE_HR_MEASUREMENT ->
            IF evt.type = "BTN_STOP"
            THEN [exitHrWaitState(c, t, FALSE) EXCEPT !.waitLog.how = "stop"]
            ELSE IF evt.type = "BTN_LAP"
            THEN [c EXCEPT !.s_hrWait.startMs = t]
            ELSE c
      [] OTHER -> c

handleButtonEvent(c, evt, t) ==
    CASE c.s_currentState = CTRL_STATE_IDLE ->
            IF evt.type = "BTN_START"
            THEN LET r == Workout_Start(c.w, t)
                 IN IF r.ret THEN [c EXCEPT !.w = r.w, !.s_currentState = CTRL_STATE_RUNNING]
                             ELSE [c EXCEPT !.w = r.w]
            ELSE c
      [] c.s_currentState = CTRL_STATE_RUNNING ->
            IF evt.type = "BTN_LAP" THEN enterHrWaitState(c, t)
            ELSE IF evt.type = "BTN_STOP" THEN [c EXCEPT !.w = Workout_Pause(c.w, t).w]
            ELSE c
      [] c.s_currentState = CTRL_STATE_HR_MEASUREMENT ->
            IF evt.type = "BTN_STOP"
            THEN [exitHrWaitState(c, t, FALSE) EXCEPT !.waitLog.how = "stop"]
            ELSE c
      [] OTHER -> c

\* handleBleCtrlEvent that takes every confirmation as the end of a wait
handleBleCtrlEvent_Unguarded(c, evt, t) ==
    IF evt.type = "BLE_CTRL_EVT_HR_DONE"
    THEN exitHrWaitState(c, t, TRUE)
    ELSE c

\* handleBleCtrlEvent that also ends the wait when the link goes down
handleBleCtrlEvent_DisconnectAborts(c, evt, t) ==
    IF /\ evt.type \in {"BLE_CTRL_EVT_HR_DONE", "BLE_CTRL_EVT_DISCONNECTED"}
       /\ c.s_currentState = CTRL_STATE_HR_MEASUREMENT
       /\ c.s_hrWait.active
    THEN exitHrWaitState(c, t, evt.type = "BLE_CTRL_EVT_HR_DONE")
    ELSE c

handleBleCtrlEvent(c, evt, t) ==
    IF /\ evt.type = "BLE_CTRL_EVT_HR_DONE"
       /\ c.s_currentState = CTRL_STATE_HR_MEASUREMENT
       /\ c.s_hrWait.active
    THEN exitHrWaitState(c, t, TRUE)
    ELSE c

\* the bounded-wait check with >= in place of >
hrTimeoutCheck_AtLimit(c, t) ==
    IF /\ c.s_currentState = CTRL_STATE_HR_MEASUREMENT
       /\ c.s_hrWait.active
       /\ Le32(U(HR_CONFIRM_TIMEOUT_MS), Sub32(t, c.s_hrWait.startMs))
    THEN [exitHrWaitState(c, t, FALSE) EXCEPT !.waitLog.how = "timeout"]
    ELSE c

\* the bounded-wait check at the end of each loop iteration
hrTimeoutCheck(c, t) ==
    IF /\ c.s_currentState = CTRL_STATE_HR_MEASUREMENT
       /\ c.s_hrWait.active
       /\ Gt32(Sub32(t, c.s_hrWait.startMs), U(HR_CONFIRM_TIMEOUT_MS))
    THEN [exitHrWaitState(c, t, FALSE) EXCEPT !.waitLog.how = "timeout"]
    ELSE c

\* the coordinator's view of the state, and its assignment
CS == [w |-> WS, s_currentState |-> s_currentState, s_hrWait |-> s_hrWait,
       g_eventQueue |-> g_eventQueue, nextSeq |-> nextSeq, waitLog |-> waitLog]
SetCS(c) ==
    /\ SetWS(c.w)
    /\ s_currentState' = c.s_currentState
    /\ s_hrWait' = c.s_hrWait
    /\ g_eventQueue' = c.g_eventQueue
    /\ nextSeq' = c.nextSeq
    /\ waitLog' = c.waitLog

(***************************************************************************)
(* Initial state: after Tasks_Init / ControlTask_Init and the start of the *)
(* tasks, with the link down.                                              *)
(***************************************************************************)

Ret(ok, seq, sent) == [ok |-> ok, seq |-> seq, sent |-> sent]

\* nothing serialised yet
NoWire == [evt |-> ZeroEvent, rec |-> <<>>, orig |-> <<>>]

\* no read of the elapsed time in progress
NoRead == [pc |-> "idle", elapsed |-> Zero32, result |-> Zero32, atomic |-> {}, muts |-> 0]

NoBufLog == [valid |-> TRUE, pushed |-> 0, first |-> 0, popped |-> <<>>]

Init ==
    /\ now \in StartTimes
    /\ ticks = 0
    /\ pausedMs = Zero32
    /\ s_session = Workout_Init.s_session
    /\ s_pauseStartMs = Workout_Init.s_pauseStartMs
    /\ s_totalPausedMs = Workout_Init.s_totalPausedMs
    /\ s_currentState = CTRL_STATE_IDLE
    /\ s_hrWait = [startMs |-> Zero32, active |-> FALSE]
    /\ g_buttonQueue = <<>>
    /\ g_bleCtrlQueue = <<>>
    /\ g_eventQueue = <<>>
    /\ polled = TRUE
    /\ s_buffer = Buffer_Init.s_buffer
    /\ s_head = Buffer_Init.s_head
    /\ s_tail = Buffer_Init.s_tail
    /\ s_count = Buffer_Init.s_count
    /\ bleCb = [connected |-> FALSE, cccEnabled |-> FALSE]
    /\ s_wasConnected = TRUE
    /\ txPc = "recv"
    /\ txLocal = [event |-> ZeroEvent, connected |-> FALSE]
    /\ delivered = <<>>
    /\ nextSeq = 1
    /\ calls = [btn |-> 0, ble |-> 0, ev |-> 0, link |-> 0, clr |-> 0, rcv |-> 0]
    /\ lastOp = "init"
    /\ ret = Ret(TRUE, 0, FALSE)
    /\ waitLog = NoWait
    /\ wire = NoWire
    /\ rd = NoRead
    /\ bufLog = NoBufLog

(***************************************************************************)
(* Lifecycle specification: the lifecycle API called in any order, at any  *)
(* clock reading.                                                          *)
(***************************************************************************)

notLife == <<coordVars, queueVars, g_eventQueue, polled, ringVars, bleCb, txTaskVars,
             nextSeq, calls, waitLog, bufLog>>

LifeCall(op, r) ==
    /\ SetWS(r.w)
    /\ lastOp' = op
    /\ ret' = Ret(r.ret, 0, FALSE)
    /\ UNCHANGED <<clockVars, notLife>>

Call_SetMode(mode) == LifeCall("Workout_SetMode", Workout_SetMode(WS, mode))

Call_CycleMode == LifeCall("Workout_CycleMode", Workout_CycleMode(WS))

Call_Start == LifeCall("Workout_Start", Workout_Start(WS, now))

Call_RecordLap == LifeCall("Workout_RecordLap", Workout_RecordLap(WS, now))

Call_Pause == LifeCall("Workout_Pause", Workout_Pause(WS, now))

Call_Stop == LifeCall("Workout_Stop", Workout_Stop(WS))

Call_Reset == LifeCall("Workout_Reset", [w |-> Workout_Reset(WS), ret |-> TRUE])

\* the millisecond clock advances
ClockAdvance ==
    /\ ticks < MaxLifeTicks
    /\ \E d \in LifeSteps : now' = Add32(now, d)
    /\ ticks' = ticks + 1
    /\ UNCHANGED pausedMs
    /\ lastOp' = "ClockAdvance"
    /\ UNCHANGED <<lifeVars, notLife, ret>>

LifeNext ==
    \/ \E mode \in WorkoutMode_t : Call_SetMode(mode)
    \/ Call_CycleMode
    \/ Call_Start
    \/ Call_RecordLap
    \/ Call_Pause
    \/ Call_Stop
    \/ Call_Reset
    \/ ClockAdvance

SpecLife == Init /\ [][LifeNext]_vars

(***************************************************************************)
(* Buffer specification: Buffer_Push, Buffer_Pop and Buffer_Clear in any   *)
(* order.                                                                  *)
(***************************************************************************)

\* history of a run of pushes followed by pops, started from an empty ring
\* (popped lists what each Pop of the run returned, 0 for nothing); any other
\* order of calls ends the run until the next Buffer_Clear
EndedRun == [valid |-> FALSE, pushed |-> 0, first |-> 0, popped |-> <<>>]
LogPush(log, e) ==
    IF log.valid /\ log.popped = <<>>
    THEN [log EXCEPT !.pushed = log.pushed + 1,
                     !.first = IF log.pushed = 0 THEN e.seq ELSE log.first]
    ELSE EndedRun
LogPop(log, r) ==
    IF ~log.valid \/ log.pushed = 0 THEN log
    ELSE IF Len(log.popped) > BUFFER_MAX_EVENTS THEN EndedRun
    ELSE [log EXCEPT !.popped = Append(log.popped, IF r.ret THEN r.evt.seq ELSE 0)]

notBuf == <<clockVars, lifeVars, coordVars, queueVars, g_eventQueue, polled, bleCb, txTaskVars>>

Call_Buffer_Push ==
    /\ calls.ev < BUFFER_MAX_EVENTS + MaxOverflow
    /\ LET e == [type |-> EventType_t[(nextSeq % 5) + 1], timestamp_ms |-> now,
                 current_lap |-> 1, lap_data |-> NoLap, seq |-> nextSeq]
           r == Buffer_Push(BS, e)
       IN /\ SetBS(r.b)
          /\ ret' = Ret(r.ret, e.seq, FALSE)
          /\ bufLog' = LogPush(bufLog, e)
    /\ nextSeq' = nextSeq + 1
    /\ calls' = [calls EXCEPT !.ev = calls.ev + 1]
    /\ lastOp' = "Buffer_Push"
    /\ UNCHANGED notBuf

Call_Buffer_Pop ==
    /\ LET r == Buffer_Pop(BS)
       IN /\ SetBS(r.b)
          /\ ret' = Ret(r.ret, r.evt.seq, FALSE)
          /\ bufLog' = LogPop(bufLog, r)
    /\ lastOp' = "Buffer_Pop"
    /\ UNCHANGED <<notBuf, nextSeq, calls>>

Call_Buffer_Clear ==
    /\ calls.clr < MaxClears
    /\ SetBS(Buffer_Clear(BS))
    /\ ret' = Ret(TRUE, 0, FALSE)
    /\ bufLog' = NoBufLog
    /\ lastOp' = "Buffer_Clear"
    /\ calls' = [calls EXCEPT !.clr = calls.clr + 1]
    /\ UNCHANGED <<notBuf, nextSeq>>

BufNext == Call_Buffer_Push \/ Call_Buffer_Pop \/ Call_Buffer_Clear

SpecBuf == Init /\ [][BufNext]_vars

(***************************************************************************)
(* Coordinator specification: the input driver, the BLE layer, the clock   *)
(* and the coordinator loop.                                               *)
(***************************************************************************)

\* a queue send that overwrites the oldest entry when the queue is full
QueueSend_Overwrite(q, length, evt) ==
    IF Len(q) >= length
    THEN [q |-> Append(Tail(q), evt), ret |-> FALSE]
    ELSE [q |-> Append(q, evt), ret |-> TRUE]

\* xQueueSend(queue, &evt, 0) on a queue of the given length
QueueSend(q, length, evt) ==
    IF Len(q) >= length
    THEN [q |-> q, ret |-> FALSE]
    ELSE [q |-> Append(q, evt), ret |-> TRUE]

\* (the timestamp_ms field of ButtonEvent_t and BleCtrlEvent_t, which no consumer
\* reads, is not carried in the queue entries)
ControlTask_SendBleEvent(q, type) ==
    QueueSend(q, BLE_CTRL_QUEUE_LENGTH, [type |-> type])

notInput == <<clockVars, lifeVars, coordVars, g_eventQueue, polled, ringVars, txTaskVars,
              nextSeq, bufLog, lastOp>>

\* the input driver reports a button event
Button_SendEvent(type) ==
    /\ calls.btn < MaxPresses
    /\ LET r == QueueSend(g_buttonQueue, BUTTON_QUEUE_LENGTH, [type |-> type])
       IN /\ g_buttonQueue' = r.q
          /\ ret' = Ret(r.ret, 0, FALSE)
    /\ calls' = [calls EXCEPT !.btn = calls.btn + 1]
    /\ UNCHANGED <<notInput, g_bleCtrlQueue, bleCb>>

\* the BLE layer reports a transport-control event (customWriteCback on
\* {"cmd":"hr_done"}, processMsg on DM_CONN_OPEN_IND / DM_CONN_CLOSE_IND)
Ble_SendCtrlEvent(type) ==
    /\ calls.ble < MaxBleEvts
    /\ LET r == ControlTask_SendBleEvent(g_bleCtrlQueue, type)
       IN /\ g_bleCtrlQueue' = r.q
          /\ ret' = Ret(r.ret, 0, FALSE)
    /\ calls' = [calls EXCEPT !.ble = calls.ble + 1]
    /\ UNCHANGED <<notInput, g_buttonQueue, bleCb>>

\* the clock advances; the coordinator loop, which blocks for at most
\* QUEUE_POLL_TIMEOUT_MS, has iterated since the previous advance
TickBy(steps) ==
    /\ polled
    /\ ticks < MaxTicks \/ s_currentState = CTRL_STATE_HR_MEASUREMENT
    /\ \E d \in steps :
          /\ now' = Add32(now, d)
          /\ pausedMs' = IF s_session.state = STATE_PAUSED THEN Add32(pausedMs, d) ELSE pausedMs
    /\ ticks' = IF ticks < MaxTicks THEN ticks + 1 ELSE ticks
    /\ polled' = FALSE
    /\ UNCHANGED <<lifeVars, coordVars, queueVars, g_eventQueue, ringVars, bleCb, txTaskVars,
                   nextSeq, calls, ret, bufLog, lastOp>>

Tick == TickBy(TickSteps)

\* one iteration of the loop of ControlTask_Run
ControlTask_Run ==
    /\ LET c0 == CS
           c1 == IF g_buttonQueue # <<>>
                 THEN handleButtonEvent(c0, Head(g_buttonQueue), now) ELSE c0
           c2 == IF g_bleCtrlQueue # <<>>
                 THEN handleBleCtrlEvent(c1, Head(g_bleCtrlQueue), now) ELSE c1
           c3 == hrTimeoutCheck(c2, now)
       IN SetCS(c3)
    /\ g_buttonQueue' = IF g_buttonQueue # <<>> THEN Tail(g_buttonQueue) ELSE g_buttonQueue
    /\ g_bleCtrlQueue' = IF g_bleCtrlQueue # <<>> THEN Tail(g_bleCtrlQueue) ELSE g_bleCtrlQueue
    /\ polled' = TRUE
    /\ UNCHANGED <<clockVars, ringVars, bleCb, txTaskVars, calls, ret, bufLog, lastOp>>

Next ==
    \/ \E type \in ButtonEventType_t : Button_SendEvent(type)
    \/ \E type \in BleCtrlEventType_t : Ble_SendCtrlEvent(type)
    \/ Tick
    \/ ControlTask_Run

Spec == Init /\ [][Next]_vars

\* The bounded wait on its own: buttons start a workout and open an HR wait (or
\* abort it), no confirmation ever arrives, the coordinator loop keeps being
\* scheduled and the clock keeps advancing.
LiveButtons == {"BTN_START", "BTN_LAP", "BTN_STOP"}

\* here the clock advances by just over half the HR timeout, or jumps by a
\* quarter of its range, so that it wraps around within the exploration
LiveSteps == {U(HR_CONFIRM_TIMEOUT_MS \div 2 + 1), [hi |-> W16 \div 4, lo |-> 0]}

LiveTick == TickBy(LiveSteps)

LiveNext ==
    \/ \E type \in LiveButtons : Button_SendEvent(type)
    \/ LiveTick
    \/ ControlTask_Run

SpecLive == Init /\ [][LiveNext]_vars /\ WF_vars(ControlTask_Run) /\ WF_vars(LiveTick)

(***************************************************************************)
(* Transmit specification: a producer of workout events, the BLE link and  *)
(* the transmit task.  BleTxTask is one process; its position txPc is      *)
(* "recv" (blocked in xQueueReceive), "flush" (in the loop of              *)
(* BleTx_FlushBuffer, between two vTaskDelay calls) or "send" (about to    *)
(* serialise and send the dequeued event).                                 *)
(***************************************************************************)

notTx == <<clockVars, lifeVars, coordVars, g_buttonQueue, polled>>

\* the control task hands a workout event to the transmit task
Call_BleTx_SendEvent ==
    /\ calls.ev < MaxEvents
    /\ \E type \in {"EVENT_LAP_COMPLETE", "EVENT_STATUS_UPDATE"} :
         LET e == [type |-> type, timestamp_ms |-> now, current_lap |-> 1,
                   lap_data |-> NoLap, seq |-> nextSeq]
             r == BleTx_SendEvent(g_eventQueue, e)
         IN /\ g_eventQueue' = r.q
            /\ ret' = Ret(r.ret, e.seq, FALSE)
    /\ nextSeq' = nextSeq + 1
    /\ calls' = [calls EXCEPT !.ev = calls.ev + 1]
    /\ lastOp' = "BleTx_SendEvent"
    /\ UNCHANGED <<notTx, g_bleCtrlQueue, ringVars, bleCb, txTaskVars, bufLog>>

\* processMsg, DM_CONN_OPEN_IND: a new connection starts with notifications off
ConnOpen ==
    /\ calls.link < MaxLinkChanges
    /\ ~bleCb.connected
    /\ bleCb' = [connected |-> TRUE, cccEnabled |-> FALSE]
    /\ g_bleCtrlQueue' = ControlTask_SendBleEvent(g_bleCtrlQueue, "BLE_CTRL_EVT_CONNECTED").q
    /\ calls' = [calls EXCEPT !.link = calls.link + 1]
    /\ lastOp' = "ConnOpen"
    /\ UNCHANGED <<notTx, g_eventQueue, ringVars, txTaskVars, nextSeq, ret, bufLog>>

\* processMsg, DM_CONN_CLOSE_IND
ConnClose ==
    /\ calls.link < MaxLinkChanges
    /\ bleCb.connected
    /\ bleCb' = [connected |-> FALSE, cccEnabled |-> FALSE]
    /\ g_bleCtrlQueue' = ControlTask_SendBleEvent(g_bleCtrlQueue, "BLE_CTRL_EVT_DISCONNECTED").q
    /\ calls' = [calls EXCEPT !.link = calls.link + 1]
    /\ lastOp' = "ConnClose"
    /\ UNCHANGED <<notTx, g_eventQueue, ringVars, txTaskVars, nextSeq, ret, bufLog>>

\* the peer enables notifications on the TX characteristic (AttsCccEnabled becomes true)
CccEnable ==
    /\ calls.link < MaxLinkChanges
    /\ bleCb.connected /\ ~bleCb.cccEnabled
    /\ bleCb' = [bleCb EXCEPT !.cccEnabled = TRUE]
    /\ calls' = [calls EXCEPT !.link = calls.link + 1]
    /\ lastOp' = "CccEnable"
    /\ UNCHANGED <<notTx, g_bleCtrlQueue, g_eventQueue, ringVars, txTaskVars, nextSeq, ret, bufLog>>

\* BleTxTask: xQueueReceive returns an event; the link state is sampled and the
\* reconnection test decides whether the buffer is flushed first
BleTxTask_Receive ==
    /\ txPc = "recv"
    /\ g_eventQueue # <<>>
    /\ LET connected == BLE_IsConnected(bleCb)
       IN /\ txLocal' = [event |-> Head(g_eventQueue), connected |-> connected]
          /\ IF connected /\ ~s_wasConnected
             THEN txPc' = "flush" /\ UNCHANGED s_wasConnected
             ELSE txPc' = "send" /\ s_wasConnected' = connected
    /\ g_eventQueue' = Tail(g_eventQueue)
    /\ lastOp' = "BleTxTask_Receive"
    /\ UNCHANGED <<notTx, g_bleCtrlQueue, ringVars, bleCb, delivered, wire, rd, nextSeq, calls, ret,
                   bufLog>>

\* BleTx_FlushBuffer: one pass of the loop (pop, serialise, send, delay), or
\* its end when the buffer is empty
BleTxTask_Flush ==
    /\ txPc = "flush"
    /\ LET r == Buffer_Pop(BS)
           len == Len(Protocol_SerializeEvent(r.evt, WS, now))
           sent == r.ret /\ len > 0 /\ DataSend(bleCb)
       IN /\ SetBS(r.b)
          /\ bufLog' = LogPop(bufLog, r)
          /\ delivered' = IF sent THEN Append(delivered, r.evt.seq) ELSE delivered
          /\ ret' = Ret(r.ret, r.evt.seq, sent)
          /\ IF r.ret
             THEN txPc' = "flush" /\ UNCHANGED s_wasConnected
             ELSE txPc' = "send" /\ s_wasConnected' = txLocal.connected
    /\ lastOp' = "BleTx_FlushBuffer"
    /\ UNCHANGED <<notTx, g_bleCtrlQueue, g_eventQueue, bleCb, txLocal, wire, rd, nextSeq, calls>>

\* BleTxTask whose send step buffers the event although it was sent
BleTxTask_Send_AlsoBuffers ==
    /\ txPc = "send"
    /\ LET e == txLocal.event
           len == Len(Protocol_SerializeEvent(e, WS, now))
           sent == len > 0 /\ txLocal.connected /\ DataSend(bleCb)
           r == Buffer_Push(BS, e)
       IN /\ IF len > 0
             THEN SetBS(r.b) /\ bufLog' = LogPush(bufLog, e)
             ELSE UNCHANGED <<ringVars, bufLog>>
          /\ delivered' = IF sent THEN Append(delivered, e.seq) ELSE delivered
          /\ ret' = Ret(sent \/ r.ret, e.seq, sent)
    /\ txPc' = "recv"
    /\ lastOp' = "BleTxTask_Send"
    /\ UNCHANGED <<notTx, g_bleCtrlQueue, g_eventQueue, bleCb, s_wasConnected, txLocal,
                   wire, rd, nextSeq, calls>>

\* BleTxTask: serialise the dequeued event and send it, or buffer it
BleTxTask_Send ==
    /\ txPc = "send"
    /\ LET e == txLocal.event
           len == Len(Protocol_SerializeEvent(e, WS, now))
           sent == len > 0 /\ txLocal.connected /\ DataSend(bleCb)
           r == Buffer_Push(BS, e)
       IN /\ IF len > 0 /\ ~sent
             THEN SetBS(r.b) /\ bufLog' = LogPush(bufLog, e)
             ELSE UNCHANGED <<ringVars, bufLog>>
          /\ delivered' = IF sent THEN Append(delivered, e.seq) ELSE delivered
          /\ ret' = Ret(sent \/ r.ret, e.seq, sent)
    /\ txPc' = "recv"
    /\ lastOp' = "BleTxTask_Send"
    /\ UNCHANGED <<notTx, g_bleCtrlQueue, g_eventQueue, bleCb, s_wasConnected, txLocal,
                   wire, rd, nextSeq, calls>>

TxNext ==
    \/ Call_BleTx_SendEvent
    \/ ConnOpen
    \/ ConnClose
    \/ CccEnable
    \/ BleTxTask_Receive
    \/ BleTxTask_Flush
    \/ BleTxTask_Send

SpecTx == Init /\ [][TxNext]_vars

\* the transmit task is scheduled whenever it can run
SpecTxLive == SpecTx /\ WF_vars(BleTxTask_Receive) /\ WF_vars(BleTxTask_Flush)
                     /\ WF_vars(BleTxTask_Send)

(***************************************************************************)
(* Properties of the coordinator.                                          *)
(***************************************************************************)

\* an HR wait that was entered from coordinator Running with the lifecycle
\* Running has ended
WaitEnded ==
    /\ waitLog.entered
    /\ waitLog.entryState = STATE_RUNNING
    /\ waitLog.exits > 0

\* C1: a Lap press in Running (lifecycle Running) that is ended by the timeout
\* leaves HrWait exactly once, to Running or Idle, and hands exactly one
\* workout event (LapComplete or Done) to the coordinator-to-transport queue
C1_TimeoutExitEmitsOneEvent ==
    (WaitEnded /\ waitLog.how = "timeout")
        => /\ waitLog.exits = 1
           /\ waitLog.events = 1
           /\ waitLog.exitCtrl \in {CTRL_STATE_RUNNING, CTRL_STATE_IDLE}

\* C2: the coordinator never stays in HrWait forever
C2_HrWaitTerminates ==
    (s_currentState = CTRL_STATE_HR_MEASUREMENT) ~> (s_currentState # CTRL_STATE_HR_MEASUREMENT)

\* an HR wait has been ended by the timeout alone
C2_Witness ==
    /\ waitLog.entered
    /\ waitLog.how = "timeout"
    /\ waitLog.exits = 1
    /\ s_currentState = CTRL_STATE_RUNNING

\* C3: whatever ends the wait, the lap that was in progress at the Lap press is
\* recorded: right after the exit either current_lap has advanced by one and
\* laps[old current_lap - 1] is populated, or the lifecycle is Completed and the
\* final lap is populated
C3_NoMissedLap ==
    (waitLog.entered /\ waitLog.entryCtrl = CTRL_STATE_RUNNING /\ waitLog.exits > 0)
        => \/ /\ s_session.current_lap = waitLog.entryLap + 1
              /\ s_session.laps[waitLog.entryLap - 1].lap_number = waitLog.entryLap
           \/ /\ s_session.state = STATE_COMPLETED
              /\ s_session.laps[s_session.config.total_laps - 1].lap_number
                     = s_session.config.total_laps

(***************************************************************************)
(* Properties of the transmit task and the offline buffer.                 *)
(***************************************************************************)

\* enqueue numbers of the events the ring holds
HeldSeqs(b) == {Held(b)[i].seq : i \in 1 .. b.s_count}
InBuffer(k) == k \in HeldSeqs(BS)
MinOf(S) == CHOOSE x \in S : \A y \in S : x <= y

\* C4: once the link is up again while the buffer holds events, every buffered
\* event is eventually popped and handed to the transport, provided the link
\* stays up
C4_OfflineReplay ==
    \A k \in 1 .. MaxEvents :
        (bleCb.connected /\ InBuffer(k)) ~> (~InBuffer(k) \/ ~bleCb.connected)

\* C5: an event popped during a flush whose send fails is still held afterwards
C5_FailedFlushSendKeepsEvent ==
    (lastOp = "BleTx_FlushBuffer" /\ ret.ok /\ ~ret.sent) => InBuffer(ret.seq)

\* C6: the transport receives the workout events in the order in which they
\* were enqueued, replayed events included
C6_DeliveryOrder ==
    \A i, j \in 1 .. Len(delivered) : i < j => delivered[i] < delivered[j]

\* C7: N + k pushes (k > 0) into an empty ring and then only pops: the first N
\* pops return the events k+1 .. N+k of the run in order, the next returns nothing
C7_OverflowKeepsNewest ==
    (bufLog.valid /\ bufLog.pushed > BUFFER_MAX_EVENTS)
        => \A i \in 1 .. Len(bufLog.popped) :
              bufLog.popped[i] = IF i <= BUFFER_MAX_EVENTS
                                 THEN bufLog.first + (bufLog.pushed - BUFFER_MAX_EVENTS) + i - 1
                                 ELSE 0

\* an overflowed ring has been popped empty, and popped once more
C7_Witness ==
    /\ bufLog.valid
    /\ bufLog.pushed > BUFFER_MAX_EVENTS
    /\ Len(bufLog.popped) = BUFFER_MAX_EVENTS + 1

\* C8: in any order of Push, Pop and Clear the ring holds at most N events; Pop
\* on a non-empty ring returns the held event with the lowest enqueue number and
\* removes just that one; Pop on an empty ring returns nothing and changes nothing
C8_PopReturnsEarliest ==
    [][/\ s_count' <= BUFFER_MAX_EVENTS
       /\ lastOp' = "Buffer_Pop" =>
             IF s_count = 0
             THEN ~ret'.ok /\ UNCHANGED ringVars
             ELSE /\ ret'.ok
                  /\ ret'.seq = MinOf(HeldSeqs(BS))
                  /\ HeldSeqs(BS)' = HeldSeqs(BS) \ {ret'.seq}
                  /\ s_count' = s_count - 1]_vars

\* a Pop has returned an event from a ring that had overflowed and is still not empty
C8_Witness ==
    /\ lastOp = "Buffer_Pop"
    /\ ret.ok
    /\ ret.seq > 1
    /\ s_count = BUFFER_MAX_EVENTS - 1

(***************************************************************************)
(* Properties of the lifecycle state machine.                              *)
(***************************************************************************)

\* the calls that the lifecycle rejects in state st
InvalidCall(op, st) ==
    \/ op \in {"Workout_SetMode", "Workout_CycleMode"} /\ st # STATE_IDLE
    \/ op = "Workout_Start" /\ st \in {STATE_RUNNING, STATE_COMPLETED}
    \/ op \in {"Workout_RecordLap", "Workout_Pause"} /\ st # STATE_RUNNING
    \/ op = "Workout_Stop" /\ st \in {STATE_IDLE, STATE_COMPLETED}

\* C9: a lifecycle operation called in a state where it is invalid returns
\* failure and leaves the session and the paused-time accumulators unchanged
C9_InvalidCallsChangeNothing ==
    [][InvalidCall(lastOp', s_session.state) => (~ret'.ok /\ UNCHANGED lifeVars)]_vars

\* Pause has been rejected while paused, at a later clock reading than the pause
C9_Witness ==
    /\ lastOp = "Workout_Pause"
    /\ ~ret.ok
    /\ s_session.state = STATE_PAUSED
    /\ s_pauseStartMs # now

\* C10: while Running or Paused, current_lap is in 1 .. total_laps
C10_CurrentLapInRange ==
    s_session.state \in {STATE_RUNNING, STATE_PAUSED}
        => /\ s_session.current_lap >= 1
           /\ s_session.current_lap <= s_session.config.total_laps

\* the last lap of a workout with several laps is in progress
C10_Witness ==
    /\ lastOp = "Workout_RecordLap"
    /\ ret.ok
    /\ s_session.state = STATE_RUNNING
    /\ s_session.config.total_laps > 1
    /\ s_session.current_lap = s_session.config.total_laps

\* lap record i of the session has been written by Workout_RecordLap
Populated(s, i) == s.laps[i].lap_number # 0
PopulatedBelow(s, n) == \A i \in 0 .. MAX_LAPS - 1 : Populated(s, i) <=> i < n

\* C11 as stated: laps[i] is populated iff i < current_lap - 1 while Running or
\* Paused, and iff i < total_laps once Completed, whatever led to Completed
C11_LapsPopulatedAsStated ==
    /\ s_session.state \in {STATE_RUNNING, STATE_PAUSED}
          => PopulatedBelow(s_session, s_session.current_lap - 1)
    /\ s_session.state = STATE_COMPLETED
          => PopulatedBelow(s_session, s_session.config.total_laps)

\* C11 (amended): laps[i] is populated iff i < current_lap - 1 while Running or
\* Paused; iff i < total_laps when the final RecordLap completes the workout;
\* iff i < current_lap - 1 when Stop completes it; and the lap records do not
\* change while the lifecycle stays Completed
C11_LapsPopulated ==
    [][/\ s_session'.state \in {STATE_RUNNING, STATE_PAUSED}
             => PopulatedBelow(s_session', s_session'.current_lap - 1)
       /\ (s_session'.state = STATE_COMPLETED /\ s_session.state # STATE_COMPLETED)
             => IF lastOp' = "Workout_RecordLap"
                THEN PopulatedBelow(s_session', s_session'.config.total_laps)
                ELSE /\ lastOp' = "Workout_Stop"
                     /\ PopulatedBelow(s_session', s_session'.current_lap - 1)
       /\ (s_session'.state = STATE_COMPLETED /\ s_session.state = STATE_COMPLETED)
             => s_session'.laps = s_session.laps]_vars

\* Stop has completed a workout during its second lap, with laps still to run
C11_Witness ==
    /\ lastOp = "Workout_Stop"
    /\ ret.ok
    /\ s_session.state = STATE_COMPLETED
    /\ s_session.current_lap = 2
    /\ s_session.config.total_laps > 2
    /\ Populated(s_session, 0)

\* the split times of the recorded laps do not decrease with the lap number
SplitsOrdered(s) ==
    \A i, j \in 0 .. MAX_LAPS - 1 :
        (i < j /\ Populated(s, i) /\ Populated(s, j))
            => Le32(s.laps[i].split_time_ms, s.laps[j].split_time_ms)

\* C12: the n-th successful RecordLap since Start records lap n, and it completes
\* the workout exactly when n = total_laps, whatever Pause/Start calls come
\* between the laps; the split times are non-decreasing in the lap number
C12_CompletesAtLastLap ==
    [][/\ (lastOp' = "Workout_RecordLap" /\ ret'.ok)
             => /\ s_session'.laps[s_session.current_lap - 1].lap_number = s_session.current_lap
                /\ PopulatedBelow(s_session', s_session.current_lap)
                /\ s_session'.state = STATE_COMPLETED
                      <=> s_session.current_lap = s_session.config.total_laps
                /\ s_session'.state \in {STATE_RUNNING, STATE_COMPLETED}
       /\ SplitsOrdered(s_session')]_vars

\* the fifth lap of a 5-lap workout with a pause in it has completed the workout
C12_Witness ==
    /\ lastOp = "Workout_RecordLap"
    /\ ret.ok
    /\ s_session.state = STATE_COMPLETED
    /\ s_session.config.total_laps = 5
    /\ s_totalPausedMs # Zero32
    /\ Lt32(s_session.laps[0].split_time_ms, s_session.laps[4].split_time_ms)

\* what Workout_GetElapsedMs returns in the current state
ElapsedMs == Workout_GetElapsedMs(WS, now)

HrWaitExited ==
    /\ s_currentState' # CTRL_STATE_HR_MEASUREMENT
    /\ \/ s_currentState = CTRL_STATE_HR_MEASUREMENT
       \/ waitLog' # waitLog /\ waitLog'.exits > 0

\* C14: after every exit from HrWait the coordinator is Running with the
\* lifecycle Running, or Idle with the lifecycle Completed, and the HR-wait
\* active flag is cleared
C14_ExitResumesOrCompletes ==
    [][HrWaitExited =>
          /\ \/ s_currentState' = CTRL_STATE_RUNNING /\ s_session'.state = STATE_RUNNING
             \/ s_currentState' = CTRL_STATE_IDLE /\ s_session'.state = STATE_COMPLETED
          /\ ~s_hrWait'.active]_vars

\* a confirmation has ended an HR wait and the workout runs again
C14_Witness ==
    /\ waitLog.entered
    /\ waitLog.how = "confirm"
    /\ waitLog.exits = 1
    /\ s_currentState = CTRL_STATE_RUNNING
    /\ s_session.state = STATE_RUNNING
    /\ s_totalPausedMs # Zero32

\* C15: once the lifecycle is Completed no call of Start, Pause, RecordLap,
\* Stop, SetMode or CycleMode succeeds or changes the session or the paused-time
\* accumulators; Reset leaves Completed, and it goes to Idle
C15_CompletedAbsorbing ==
    [][s_session.state = STATE_COMPLETED =>
          IF lastOp' = "Workout_Reset"
          THEN s_session'.state = STATE_IDLE
          ELSE /\ UNCHANGED lifeVars
               /\ lastOp' # "ClockAdvance" => ~ret'.ok]_vars

\* Start has been refused after Stop completed a workout in its first lap
C15_Witness ==
    /\ lastOp = "Workout_Start"
    /\ ~ret.ok
    /\ s_session.state = STATE_COMPLETED
    /\ s_session.current_lap = 1
    /\ s_session.config.total_laps > 1
    /\ ~Populated(s_session, 0)

\* the configuration carries the values that belong to its mode tag
ConfigOfMode(cfg) ==
    \/ cfg = [mode |-> "MODE_4x500M",  total_laps |-> 4, lap_distance_m |-> 500,  rest_time_sec |-> 60]
    \/ cfg = [mode |-> "MODE_5x1000M", total_laps |-> 5, lap_distance_m |-> 1000, rest_time_sec |-> 90]
    \/ cfg = [mode |-> "MODE_2x2000M", total_laps |-> 2, lap_distance_m |-> 2000, rest_time_sec |-> 120]
    \/ cfg = [mode |-> "MODE_1x4000M", total_laps |-> 1, lap_distance_m |-> 4000, rest_time_sec |-> 0]

\* C16: SetMode and CycleMode succeed exactly when the lifecycle is Idle; the
\* configuration does not change over any step taken outside Idle (so it is
\* constant from a Start to the next Reset, which keeps it too), and it always
\* carries the values of its mode tag (4, 5, 2 and 1 laps)
C16_ConfigChangesOnlyInIdle ==
    [][/\ lastOp' \in {"Workout_SetMode", "Workout_CycleMode"}
             => (ret'.ok <=> s_session.state = STATE_IDLE)
       /\ s_session.state # STATE_IDLE => s_session'.config = s_session.config
       /\ ConfigOfMode(s_session'.config)]_vars

\* SetMode has been refused during a paused 2-lap workout
C16_Witness ==
    /\ lastOp = "Workout_SetMode"
    /\ ~ret.ok
    /\ s_session.state = STATE_PAUSED
    /\ s_session.config.mode = "MODE_2x2000M"
    /\ s_session.config.total_laps = 2

\* the step is one iteration of the coordinator loop
IsLoopIteration == calls' = calls /\ now' = now /\ polled'

\* an iteration that starts in an active HR wait and receives neither a Stop
\* button nor a confirmation
UndisturbedWait ==
    /\ IsLoopIteration
    /\ s_currentState = CTRL_STATE_HR_MEASUREMENT
    /\ s_hrWait.active
    /\ g_buttonQueue = <<>> \/ Head(g_buttonQueue).type # "BTN_STOP"
    /\ g_bleCtrlQueue = <<>> \/ Head(g_bleCtrlQueue).type # "BLE_CTRL_EVT_HR_DONE"

\* milliseconds since the wait started, modulo 2^32
WaitElapsed == Sub32(now, s_hrWait.startMs)

\* C17: without a confirmation and a Stop button, a loop iteration leaves the
\* HR wait by the timeout exit exactly when (now - startMs) mod 2^32 exceeds
\* HR_CONFIRM_TIMEOUT_MS, so the wait lasts while the value is <= 5000 and ends
\* at the first iteration at which it is greater; a wrap of the clock between
\* the start of the wait and the check makes no difference
C17_TimeoutBoundary ==
    [][UndisturbedWait =>
          IF Gt32(WaitElapsed, U(HR_CONFIRM_TIMEOUT_MS))
          THEN /\ s_currentState' # CTRL_STATE_HR_MEASUREMENT
               /\ waitLog'.how = "timeout"
               /\ waitLog'.exits = waitLog.exits + 1
          ELSE /\ s_currentState' = CTRL_STATE_HR_MEASUREMENT
               /\ s_hrWait' = s_hrWait
               /\ waitLog'.exits = waitLog.exits]_vars

\* the timeout exit has been taken 5001 ms after the start of a wait, with the
\* clock wrapped in between
C17_Witness ==
    /\ waitLog.how = "timeout"
    /\ waitLog.exits = 1
    /\ polled
    /\ WaitElapsed = U(HR_CONFIRM_TIMEOUT_MS + 1)
    /\ Lt32(now, s_hrWait.startMs)

(***************************************************************************)
(* Queue specification: the three producers send until their queues        *)
(* overflow, while a consumer may take an entry off the front of a queue.  *)
(***************************************************************************)

\* the k-th event a producer sends: the event types in turn
ButtonTypeOf(k) ==
    CASE k % 5 = 0 -> "BTN_START"
      [] k % 5 = 1 -> "BTN_LAP"
      [] k % 5 = 2 -> "BTN_STOP"
      [] k % 5 = 3 -> "BTN_MODE_NEXT"
      [] k % 5 = 4 -> "BTN_STATUS"
BleCtrlTypeOf(k) ==
    CASE k % 3 = 0 -> "BLE_CTRL_EVT_HR_DONE"
      [] k % 3 = 1 -> "BLE_CTRL_EVT_CONNECTED"
      [] k % 3 = 2 -> "BLE_CTRL_EVT_DISCONNECTED"

notQueue == <<clockVars, lifeVars, coordVars, polled, ringVars, bleCb, txTaskVars, bufLog>>

Send_Button ==
    /\ calls.btn < BUTTON_QUEUE_LENGTH + MaxQueueOverflow
    /\ LET r == QueueSend(g_buttonQueue, BUTTON_QUEUE_LENGTH, [type |-> ButtonTypeOf(calls.btn)])
       IN /\ g_buttonQueue' = r.q
          /\ ret' = Ret(r.ret, 0, FALSE)
    /\ calls' = [calls EXCEPT !.btn = calls.btn + 1]
    /\ lastOp' = "Button_SendEvent"
    /\ UNCHANGED <<notQueue, g_bleCtrlQueue, g_eventQueue, nextSeq>>

Send_BleCtrl ==
    /\ calls.ble < BLE_CTRL_QUEUE_LENGTH + MaxQueueOverflow
    /\ LET r == ControlTask_SendBleEvent(g_bleCtrlQueue, BleCtrlTypeOf(calls.ble))
       IN /\ g_bleCtrlQueue' = r.q
          /\ ret' = Ret(r.ret, 0, FALSE)
    /\ calls' = [calls EXCEPT !.ble = calls.ble + 1]
    /\ lastOp' = "ControlTask_SendBleEvent"
    /\ UNCHANGED <<notQueue, g_buttonQueue, g_eventQueue, nextSeq>>

Send_Event ==
    /\ calls.ev < EVENT_QUEUE_LENGTH + MaxQueueOverflow
    /\ LET e == [type |-> EventType_t[(nextSeq % 5) + 1], timestamp_ms |-> now,
                 current_lap |-> 1, lap_data |-> NoLap, seq |-> nextSeq]
           r == BleTx_SendEvent(g_eventQueue, e)
       IN /\ g_eventQueue' = r.q
          /\ ret' = Ret(r.ret, e.seq, FALSE)
    /\ nextSeq' = nextSeq + 1
    /\ calls' = [calls EXCEPT !.ev = calls.ev + 1]
    /\ lastOp' = "BleTx_SendEvent"
    /\ UNCHANGED <<notQueue, g_buttonQueue, g_bleCtrlQueue>>

\* xQueueReceive by the consumer of one of the queues
Receive_Any ==
    /\ calls.rcv < MaxReceives
    /\ \/ /\ g_buttonQueue # <<>>
          /\ g_buttonQueue' = Tail(g_buttonQueue)
          /\ UNCHANGED <<g_bleCtrlQueue, g_eventQueue>>
       \/ /\ g_bleCtrlQueue # <<>>
          /\ g_bleCtrlQueue' = Tail(g_bleCtrlQueue)
          /\ UNCHANGED <<g_buttonQueue, g_eventQueue>>
       \/ /\ g_eventQueue # <<>>
          /\ g_eventQueue' = Tail(g_eventQueue)
          /\ UNCHANGED <<g_buttonQueue, g_bleCtrlQueue>>
    /\ calls' = [calls EXCEPT !.rcv = calls.rcv + 1]
    /\ lastOp' = "xQueueReceive"
    /\ UNCHANGED <<notQueue, nextSeq, ret>>

QueueNext == Send_Button \/ Send_BleCtrl \/ Send_Event \/ Receive_Any

SpecQueue == Init /\ [][QueueNext]_vars

\* C18: a send on a full button, transport-control or workout-event queue
\* completes at once with failure; the new event is dropped and the queued
\* events and their order are unchanged
C18_FullQueueDropsNewEvent ==
    [][/\ (lastOp' = "Button_SendEvent" /\ Len(g_buttonQueue) >= BUTTON_QUEUE_LENGTH)
             => (~ret'.ok /\ g_buttonQueue' = g_buttonQueue)
       /\ (lastOp' = "ControlTask_SendBleEvent" /\ Len(g_bleCtrlQueue) >= BLE_CTRL_QUEUE_LENGTH)
             => (~ret'.ok /\ g_bleCtrlQueue' = g_bleCtrlQueue)
       /\ (lastOp' = "BleTx_SendEvent" /\ Len(g_eventQueue) >= EVENT_QUEUE_LENGTH)
             => (~ret'.ok /\ g_eventQueue' = g_eventQueue)
       /\ Len(g_buttonQueue') <= BUTTON_QUEUE_LENGTH
       /\ Len(g_bleCtrlQueue') <= BLE_CTRL_QUEUE_LENGTH
       /\ Len(g_eventQueue') <= EVENT_QUEUE_LENGTH]_vars

\* sends have been refused on a full button queue and on a full transport-control
\* queue, and the last one on a full workout-event queue
C18_Witness ==
    /\ lastOp = "BleTx_SendEvent"
    /\ ~ret.ok
    /\ Len(g_eventQueue) = EVENT_QUEUE_LENGTH
    /\ Len(g_buttonQueue) = BUTTON_QUEUE_LENGTH
    /\ calls.btn > BUTTON_QUEUE_LENGTH
    /\ Len(g_bleCtrlQueue) = BLE_CTRL_QUEUE_LENGTH
    /\ calls.ble > BLE_CTRL_QUEUE_LENGTH

(***************************************************************************)
(* Codec specification: events are serialised, and serialised again later, *)
(* while the session and the clock move on in between.                     *)
(***************************************************************************)

\* one workout event of each type, as it sits in the queue or the offline ring
CodecEvents ==
    {[type |-> EventType_t[k], timestamp_ms |-> U(1000), current_lap |-> 1,
      lap_data |-> [lap_number |-> 1, lap_time_ms |-> U(900), split_time_ms |-> U(900)],
      seq |-> k] : k \in 1 .. Len(EventType_t)}

Call_Protocol_SerializeEvent ==
    /\ \E e \in CodecEvents :
         LET rec == Protocol_SerializeEvent(e, WS, now)
         IN wire' = [evt |-> e, rec |-> rec,
                     orig |-> IF wire.evt = e THEN wire.orig ELSE rec]
    /\ lastOp' = "Protocol_SerializeEvent"
    /\ UNCHANGED <<clockVars, lifeVars, coordVars, queueVars, g_eventQueue, polled, ringVars,
                   bleCb, s_wasConnected, txPc, txLocal, delivered, rd, nextSeq, calls, ret,
                   bufLog>>

CodecNext ==
    \/ Call_Protocol_SerializeEvent
    \/ Call_CycleMode
    \/ Call_Start
    \/ Call_Pause
    \/ ClockAdvance

SpecCodec == Init /\ [][CodecNext]_vars

\* C19: an event serialises to the same wire record whenever it is serialised,
\* whatever the session and the clock have become since its first serialisation
C19_CodecDependsOnEventOnly ==
    wire.rec = wire.orig

(***************************************************************************)
(* Reader specification: the transmit task, serialising a status update,   *)
(* executes Workout_GetElapsedMs one memory read at a time, and the        *)
(* higher-priority coordinator may run a whole lifecycle call between any  *)
(* two of its reads.  The clock stands still during a read.                *)
(* rd.pc: "idle", "start" (about to read workout_start_ms), "paused"       *)
(* (about to read s_totalPausedMs), "state2" (about to test the state      *)
(* again), "pause" (about to read s_pauseStartMs), "done" (has returned).  *)
(* rd.atomic collects what the function, run atomically, would return in   *)
(* each lifecycle state that existed during the read.                      *)
(***************************************************************************)

\* number of lifecycle calls that preempt one read
MaxPreempts == 1

notReader == <<clockVars, coordVars, queueVars, g_eventQueue, polled, ringVars, bleCb,
               s_wasConnected, txPc, txLocal, delivered, wire, nextSeq, calls, ret, bufLog>>

\* one step of the reader inside Workout_GetElapsedMs
Read_Step ==
    /\ rd.pc # "done"
    /\ rd' = CASE rd.pc = "idle" ->
                    IF s_session.state = STATE_IDLE
                    THEN [NoRead EXCEPT !.pc = "done", !.atomic = {ElapsedMs}]
                    ELSE [NoRead EXCEPT !.pc = "start", !.atomic = {ElapsedMs}]
               [] rd.pc = "start" ->
                    [rd EXCEPT !.pc = "paused",
                               !.elapsed = Sub32(now, s_session.workout_start_ms)]
               [] rd.pc = "paused" ->
                    [rd EXCEPT !.pc = "state2", !.elapsed = Sub32(rd.elapsed, s_totalPausedMs)]
               [] rd.pc = "state2" ->
                    IF s_session.state = STATE_PAUSED
                    THEN [rd EXCEPT !.pc = "pause"]
                    ELSE [rd EXCEPT !.pc = "done", !.result = rd.elapsed]
               [] rd.pc = "pause" ->
                    [rd EXCEPT !.pc = "done",
                               !.result = Sub32(rd.elapsed, Sub32(now, s_pauseStartMs))]
    /\ lastOp' = "Workout_GetElapsedMs"
    /\ UNCHANGED <<lifeVars, notReader>>

\* the caller takes the returned value
Read_Return ==
    /\ rd.pc = "done"
    /\ rd' = NoRead
    /\ lastOp' = "Protocol_SerializeEvent"
    /\ UNCHANGED <<lifeVars, notReader>>

\* the coordinator runs a lifecycle call, between two reads or during one
Coordinator_Call(op, r) ==
    /\ rd.pc \notin {"idle", "done"} => rd.muts < MaxPreempts
    /\ SetWS(r.w)
    /\ rd' = IF rd.pc \in {"idle", "done"} THEN rd
             ELSE [rd EXCEPT !.atomic = rd.atomic \cup {Workout_GetElapsedMs(r.w, now)},
                             !.muts = rd.muts + 1]
    /\ lastOp' = op
    /\ UNCHANGED notReader

ReaderNext ==
    \/ Read_Step
    \/ Read_Return
    \/ Coordinator_Call("Workout_Start", Workout_Start(WS, now))
    \/ Coordinator_Call("Workout_Pause", Workout_Pause(WS, now))
    \/ Coordinator_Call("Workout_RecordLap", Workout_RecordLap(WS, now))
    \/ Coordinator_Call("Workout_Reset", [w |-> Workout_Reset(WS), ret |-> TRUE])
    \/ rd.pc = "idle" /\ ClockAdvance

SpecReader == Init /\ [][ReaderNext]_vars

\* C20: the elapsed time a reader obtains while the coordinator preempts it with
\* a lifecycle call equals what an atomic read would give before or after that call
C20_ReadIsAtomic ==
    rd.pc = "done" => rd.result \in rd.atomic

\* C21: paused intervals are counted exactly once: while the lifecycle is not
\* Paused its cumulative paused time equals the clock time that passed with the
\* lifecycle Paused, and while it is Paused the two differ by just the pause in
\* progress, also when a Stop button had paused the workout before the Lap press
\* and when the HR-wait exit resumes it
C21_PausedCountedOnce ==
    IF s_session.state = STATE_PAUSED
    THEN Add32(s_totalPausedMs, Sub32(now, s_pauseStartMs)) = pausedMs
    ELSE s_totalPausedMs = pausedMs

\* a workout paused by a Stop button before the Lap press runs again after the
\* HR wait, with the time before and during the wait counted
C21_Witness ==
    /\ waitLog.entered
    /\ waitLog.entryState = STATE_PAUSED
    /\ waitLog.exits = 1
    /\ s_session.state = STATE_RUNNING
    /\ s_pauseStartMs # s_hrWait.startMs
    /\ Gt32(s_totalPausedMs, U(HR_CONFIRM_TIMEOUT_MS))

\* C22: Buffer_Push on a full ring returns false, stores the event as the newest
\* entry, drops exactly the oldest one and keeps the count at N; on a ring that
\* is not full it returns true, drops nothing and raises the count by one
C22_PushOnFullDropsOldest ==
    [][lastOp' = "Buffer_Push" =>
          /\ Held(BS)'[s_count'].seq = ret'.seq
          /\ IF s_count = BUFFER_MAX_EVENTS
             THEN /\ ~ret'.ok
                  /\ s_count' = BUFFER_MAX_EVENTS
                  /\ SubSeq(Held(BS)', 1, BUFFER_MAX_EVENTS - 1) = Tail(Held(BS))
             ELSE /\ ret'.ok
                  /\ s_count' = s_count + 1
                  /\ SubSeq(Held(BS)', 1, s_count) = Held(BS)]_vars

\* a push on a full ring has been refused, and its event is the newest entry
\* while the second event pushed has become the oldest
C22_Witness ==
    /\ lastOp = "Buffer_Push"
    /\ ~ret.ok
    /\ s_count = BUFFER_MAX_EVENTS
    /\ Held(BS)[BUFFER_MAX_EVENTS].seq = ret.seq
    /\ Held(BS)[1].seq = 2

(***************************************************************************)
(* Lap timing specification: one session without any pause (mode          *)
(* selection, Start and laps) against a clock that advances by 1000, 1200  *)
(* or 1500 ms between calls.                                               *)
(***************************************************************************)

\* bound: clock advances of the lap timing specification
MaxLapTicks == 4

\* the millisecond clock advances between two calls of the session (once the
\* workout is Completed no call of this specification reads the clock)
LapClockAdvance ==
    /\ ticks < MaxLapTicks
    /\ s_session.state # STATE_COMPLETED
    /\ \E d \in {U(1000), U(1200), U(1500)} :
          now' = Add32(now, d)
    /\ ticks' = ticks + 1
    /\ UNCHANGED pausedMs
    /\ lastOp' = "ClockAdvance"
    /\ UNCHANGED <<lifeVars, notLife, ret>>

LapNext ==
    \/ Call_CycleMode
    \/ Call_Start
    \/ Call_RecordLap
    \/ LapClockAdvance

SpecLaps == Init /\ [][LapNext]_vars

\* C23: in a session without any pause, a RecordLap call that
\* succeeds at clock time t_n stores as lap n a record whose split is t_n - t0
\* (t0 + split = t_n) and whose lap time is t_n - t_(n-1) (previous split + lap
\* time = split), so that the lap times recorded so far sum to the split.
C23_LapTimesSumToSplit ==
    [][(lastOp' = "Workout_RecordLap" /\ ret'.ok) =>
          LET n == s_session.current_lap
              laps == s_session'.laps
              prev == IF n = 1 THEN Zero32 ELSE laps[n - 2].split_time_ms
              sum[i \in 0 .. MAX_LAPS] ==
                  IF i = 0 THEN Zero32 ELSE Add32(sum[i - 1], laps[i - 1].lap_time_ms)
          IN /\ laps[n - 1].lap_number = n
             /\ Add32(s_session.workout_start_ms, laps[n - 1].split_time_ms) = now
             /\ Add32(prev, laps[n - 1].lap_time_ms) = laps[n - 1].split_time_ms
             /\ sum[n] = laps[n - 1].split_time_ms]_vars

\* Start at 0 and laps at 1000, 2500, 4000 and 5200 in mode 4x500m
C23_Witness ==
    /\ lastOp = "Workout_RecordLap" /\ ret.ok
    /\ s_session.config.mode = "MODE_4x500M"
    /\ s_session.workout_start_ms = Zero32
    /\ s_session.state = STATE_COMPLETED
    /\ [i \in 0 .. 3 |-> s_session.laps[i].lap_time_ms] =
          [i \in 0 .. 3 |-> U(<<1000, 1500, 1500, 1200>>[i + 1])]
    /\ s_session.laps[3].split_time_ms = U(5200)
    /\ now = U(5200)

\* C24: whenever the coordinator is in HrWait the workout lifecycle is Paused,
\* whether the Lap press that opened the wait found the lifecycle Running or
\* already Paused by an earlier Stop button.
C24_HrWaitMeansPaused ==
    s_currentState = CTRL_STATE_HR_MEASUREMENT => s_session.state = STATE_PAUSED

\* an HR wait opened by a Lap press that found the lifecycle paused by a Stop
\* button some time before
C24_Witness ==
    /\ s_currentState = CTRL_STATE_HR_MEASUREMENT
    /\ waitLog.entered /\ waitLog.entryState = STATE_PAUSED /\ waitLog.exits = 0
    /\ s_session.state = STATE_PAUSED
    /\ s_pauseStartMs # s_hrWait.startMs

\* C25: from any lifecycle state, Reset yields Idle with the configured mode
\* and its derived constants preserved, all lap records cleared, current_lap
\* and the start times zero and the paused-time accumulators zero, so that the
\* elapsed time reads 0; a second Reset changes nothing more.
C25_ResetClearsSession ==
    [][lastOp' = "Workout_Reset" =>
          /\ s_session'.state = STATE_IDLE
          /\ s_session'.config = s_session.config
          /\ s_session'.config = setModeConfig(s_session.config.mode)
          /\ \A i \in 0 .. MAX_LAPS - 1 : s_session'.laps[i] = NoLap
          /\ s_session'.current_lap = 0
          /\ s_session'.workout_start_ms = Zero32
          /\ s_session'.lap_start_ms = Zero32
          /\ s_pauseStartMs' = Zero32
          /\ s_totalPausedMs' = Zero32
          /\ ElapsedMs' = Zero32
          /\ Workout_Reset(WS') = WS']_vars

\* a Reset, some time after the start of the clock, that kept a mode other than
\* the default one
C25_Witness ==
    /\ lastOp = "Workout_Reset"
    /\ s_session.state = STATE_IDLE
    /\ s_session.config = setModeConfig("MODE_2x2000M")
    /\ ticks > 0 /\ now # Zero32

\* C26: a loop iteration in which the coordinator, in state Running, consumes a
\* Stop button event pauses the lifecycle and leaves the coordinator in Running:
\* the session differs from before in its state only, which is Paused and not
\* Completed, so no lap is recorded, and no workout event is emitted.
C26_StopWhileRunningPauses ==
    [][(/\ IsLoopIteration
        /\ s_currentState = CTRL_STATE_RUNNING
        /\ g_buttonQueue # <<>>
        /\ Head(g_buttonQueue).type = "BTN_STOP") =>
          /\ s_currentState' = CTRL_STATE_RUNNING
          /\ s_session' = [s_session EXCEPT !.state = STATE_PAUSED]
          /\ s_session.state = STATE_RUNNING => s_pauseStartMs' = now
          /\ g_eventQueue' = g_eventQueue
          /\ nextSeq' = nextSeq
          /\ s_hrWait' = s_hrWait]_vars

\* the coordinator is Running and the lifecycle is paused since this instant,
\* without any HR wait having been opened: a Stop button has just been consumed
C26_Witness ==
    /\ s_currentState = CTRL_STATE_RUNNING
    /\ s_session.state = STATE_PAUSED
    /\ s_pauseStartMs = now /\ s_session.workout_start_ms # now
    /\ ~waitLog.entered
    /\ polled /\ g_buttonQueue = <<>> /\ g_eventQueue = <<>>

(***************************************************************************)
(* Elapsed-time specification (time_utils.c): Time_ElapsedMs called with   *)
(* start times from the whole 32-bit range, at clock readings before and   *)
(* after a wrap of the clock.                                              *)
(***************************************************************************)

\* bound: clock advances of the elapsed-time specification
MaxTimeTicks == 3

\* Time_ElapsedMs with the wrapped branch one short
Time_ElapsedMs_NoCarry(start_ms, t) ==
    IF ~Lt32(t, start_ms)
    THEN Sub32(t, start_ms)
    ELSE Add32(Sub32([hi |-> W16 - 1, lo |-> W16 - 1], start_ms), t)

\* t is the value Time_GetMs() returns, 0xFFFFFFFF is [hi 65535, lo 65535]
Time_ElapsedMs(start_ms, t) ==
    IF ~Lt32(t, start_ms)
    THEN Sub32(t, start_ms)
    ELSE Add32(Add32(Sub32([hi |-> W16 - 1, lo |-> W16 - 1], start_ms), t), U(1))

\* a call of Time_ElapsedMs; rd.elapsed keeps the argument, rd.result the value
\* returned
Call_Time_ElapsedMs ==
    /\ \E start_ms \in {Zero32, U(1), U(2500), U(W16 - 1), U(W16),
                        [hi |-> W16 \div 2 - 1, lo |-> W16 - 1], [hi |-> W16 \div 2, lo |-> 0],
                        Sub32(Zero32, U(2500)), Sub32(Zero32, U(1))} :
          rd' = [NoRead EXCEPT !.pc = "done", !.elapsed = start_ms,
                               !.result = Time_ElapsedMs(start_ms, now)]
    /\ lastOp' = "Time_ElapsedMs"
    /\ UNCHANGED <<clockVars, lifeVars, coordVars, queueVars, g_eventQueue, polled, ringVars,
                   bleCb, s_wasConnected, txPc, txLocal, delivered, wire, nextSeq, calls, ret,
                   bufLog>>

\* the clock advances by 1 ms, by 2500 ms or by half its range
TimeClockAdvance ==
    /\ ticks < MaxTimeTicks
    /\ \E d \in {U(1), U(2500), [hi |-> W16 \div 2, lo |-> 0]} : now' = Add32(now, d)
    /\ ticks' = ticks + 1
    /\ lastOp' = "ClockAdvance"
    /\ UNCHANGED <<pausedMs, lifeVars, coordVars, queueVars, g_eventQueue, polled, ringVars,
                   bleCb, txTaskVars, nextSeq, calls, ret, bufLog>>

TimeNext == Call_Time_ElapsedMs \/ TimeClockAdvance

SpecTime == Init /\ [][TimeNext]_vars

\* C27: the value r that Time_ElapsedMs(start_ms) returns at clock reading now
\* is (now - start_ms) mod 2^32, that is the 32-bit value with
\* start_ms + r = now mod 2^32, also when now < start_ms.
C27_ElapsedIsDifferenceMod32 ==
    lastOp = "Time_ElapsedMs" => Add32(rd.elapsed, rd.result) = now

\* a call after the clock has wrapped: start_ms = 2^32 - 2500 is greater than
\* now = 1, and the low word of now is below that of start_ms
C27_Witness ==
    /\ lastOp = "Time_ElapsedMs"
    /\ rd.elapsed = Sub32(Zero32, U(2500)) /\ now = U(1)
    /\ Lt32(now, rd.elapsed)
    /\ rd.result = U(2501)

\* C28: a workout paused by a Stop button (coordinator Running, lifecycle
\* Paused) is resumed by a following Start button: after the loop iteration
\* that consumes BTN_START the lifecycle is Running again.
C28_StartResumesPausedWorkout ==
    [][(/\ IsLoopIteration
        /\ s_currentState = CTRL_STATE_RUNNING
        /\ s_session.state = STATE_PAUSED
        /\ g_buttonQueue # <<>>
        /\ Head(g_buttonQueue).type = "BTN_START") =>
          s_session'.state = STATE_RUNNING]_vars

\* C29: the exit procedure runs exactly once for each entry into HrWait: after
\* any loop iteration the number of exits since the last entry is 0 while the
\* coordinator is in HrWait and 1 once it has left; and an iteration that finds
\* a Stop button, a confirmation and an expired timeout together exits by the
\* Stop button, resumes the lifecycle once and does nothing for the other two.
C29_ExitRunsOncePerEntry ==
    [][IsLoopIteration =>
          /\ waitLog'.entered =>
                waitLog'.exits = IF s_currentState' = CTRL_STATE_HR_MEASUREMENT THEN 0 ELSE 1
          /\ (/\ s_currentState = CTRL_STATE_HR_MEASUREMENT /\ s_hrWait.active
              /\ g_buttonQueue # <<>> /\ Head(g_buttonQueue).type = "BTN_STOP"
              /\ g_bleCtrlQueue # <<>> /\ Head(g_bleCtrlQueue).type = "BLE_CTRL_EVT_HR_DONE"
              /\ Gt32(WaitElapsed, U(HR_CONFIRM_TIMEOUT_MS))) =>
                /\ waitLog'.exits = 1 /\ waitLog'.how = "stop"
                /\ s_currentState' = CTRL_STATE_RUNNING
                /\ s_session'.state = STATE_RUNNING
                /\ s_totalPausedMs' = Add32(s_totalPausedMs, Sub32(now, s_pauseStartMs))
                /\ g_buttonQueue' = Tail(g_buttonQueue)
                /\ g_bleCtrlQueue' = Tail(g_bleCtrlQueue)]_vars

\* a wait left by the Stop button in an iteration at which its timeout had
\* expired as well and a transport-control event was consumed
C29_Witness ==
    /\ waitLog.entered /\ waitLog.exits = 1 /\ waitLog.how = "stop"
    /\ s_currentState = CTRL_STATE_RUNNING /\ ~s_hrWait.active
    /\ Gt32(WaitElapsed, U(HR_CONFIRM_TIMEOUT_MS))
    /\ s_totalPausedMs = WaitElapsed
    /\ polled /\ calls.ble > 0 /\ g_bleCtrlQueue = <<>> /\ g_buttonQueue = <<>>

\* C30: a loop iteration that consumes a transport-control event which is a
\* Connected or Disconnected event, or which finds the coordinator outside
\* HrWait once the button event of the iteration is handled, ends as it would
\* have ended without the event; when nothing else is pending (no button
\* event, no expired timeout) it changes neither the coordinator state, the
\* HR-wait record nor the lifecycle session and emits no workout event.
C30_TransportEventsChangeNothing ==
    [][(IsLoopIteration /\ g_bleCtrlQueue # <<>>) =>
          LET c1 == IF g_buttonQueue # <<>>
                    THEN handleButtonEvent(CS, Head(g_buttonQueue), now) ELSE CS
          IN (\/ Head(g_bleCtrlQueue).type # "BLE_CTRL_EVT_HR_DONE"
              \/ c1.s_currentState # CTRL_STATE_HR_MEASUREMENT) =>
                /\ CS' = hrTimeoutCheck(c1, now)
                /\ g_bleCtrlQueue' = Tail(g_bleCtrlQueue)
                /\ (/\ g_buttonQueue = <<>>
                    /\ ~(s_hrWait.active /\ Gt32(WaitElapsed, U(HR_CONFIRM_TIMEOUT_MS)))) =>
                      /\ s_currentState' = s_currentState
                      /\ s_hrWait' = s_hrWait
                      /\ WS' = WS
                      /\ g_eventQueue' = g_eventQueue
                      /\ nextSeq' = nextSeq]_vars

\* transport-control events have been consumed with the coordinator in Idle
\* all along (no button was ever pressed), and everything is as at boot
C30_Witness ==
    /\ calls.btn = 0 /\ calls.ble = MaxBleEvts /\ g_bleCtrlQueue = <<>> /\ polled
    /\ ticks > 0
    /\ s_currentState = CTRL_STATE_IDLE
    /\ s_hrWait = [startMs |-> Zero32, active |-> FALSE]
    /\ WS = Workout_Init
    /\ g_eventQueue = <<>>

\* C31: a flush started at a dequeue that sees the link up again sends every
\* event the offline buffer holds, oldest first, before the newly dequeued
\* event: each pass pops the oldest held event and hands it to the transport,
\* and when the flush ends the buffer is empty and the dequeued event has not
\* been sent yet.
C31_ReconnectFlushSendsAll ==
    [][lastOp' = "BleTx_FlushBuffer" =>
          IF ret'.ok
          THEN /\ ret'.seq = Held(BS)[1].seq
               /\ delivered' = Append(delivered, ret'.seq)
          ELSE /\ s_count' = 0
               /\ txPc' = "send"
               /\ \A i \in 1 .. Len(delivered') : delivered'[i] # txLocal.event.seq]_vars

\* C32: the step of the transmit task that disposes of a dequeued event either
\* hands it to the transport (and leaves the offline buffer alone) or stores it
\* as the newest event of the offline buffer (and hands nothing to the
\* transport), never both and never neither; and at any time no event has been
\* handed to the transport twice, directly or through a flush.
C32_SentOrBufferedNeverBoth ==
    [][/\ lastOp' = "BleTxTask_Send" =>
             LET e == txLocal.event
                 handed == delivered' = Append(delivered, e.seq)
                 buffered == /\ BS' # BS
                             /\ s_count' > 0
                             /\ Held(BS)'[s_count'].seq = e.seq
             IN /\ handed \/ buffered
                /\ handed => BS' = BS
                /\ buffered => delivered' = delivered
                /\ ret'.seq = e.seq /\ ret'.sent = handed
       /\ \A i, j \in 1 .. Len(delivered') : delivered'[i] = delivered'[j] => i = j]_vars

\* an event has been sent directly after an earlier one was buffered and then
\* handed to the transport by a flush
C32_Witness ==
    /\ lastOp = "BleTxTask_Send" /\ ret.sent
    /\ Len(delivered) = 2 /\ delivered[2] = ret.seq
    /\ bufLog.valid /\ bufLog.popped # <<>> /\ bufLog.popped[1] = delivered[1]
    /\ s_count = 0

(***************************************************************************)
(* Button-only control task (workout_control.c): the task blocks on the    *)
(* button queue and drives the lifecycle directly, without an HR wait.     *)
(* The operators act on the same record c as the coordinator's.            *)
(***************************************************************************)

\* bound: button events reported to the button-only control task
MaxTaskPresses == 6
\* bound: button events waiting in the queue of the button-only control task
MaxPending == 1
\* bound: clock advances of the button-only control task specification
MaxTaskTicks == 2

\* sendWorkoutEvent: the event is stamped and handed to BleTx_SendEvent, whose
\* result is ignored; nextSeq counts the events handed over
sendWorkoutEvent(c, type, lapData, t) ==
    LET event == [type |-> type, timestamp_ms |-> t,
                  current_lap |-> c.w.s_session.current_lap,
                  lap_data |-> lapData, seq |-> c.nextSeq]
    IN [c EXCEPT !.g_eventQueue = BleTx_SendEvent(c.g_eventQueue, event).q,
                 !.nextSeq = c.nextSeq + 1]

\* ControlTask that takes a Lap press in every lifecycle state
ControlTask_LapAlways(c, btn, t) ==
    LET r == Workout_RecordLap([c.w EXCEPT !.s_session.state = STATE_RUNNING], t)
    IN IF btn.type = "BTN_LAP"
       THEN sendWorkoutEvent([c EXCEPT !.w = r.w], "EVENT_LAP_COMPLETE", r.lap, t)
       ELSE c

\* ControlTask whose Start press does not reset a Completed session first
ControlTask_NoAutoReset(c, btn, t) ==
    LET r == Workout_Start(c.w, t)
        c1 == [c EXCEPT !.w = r.w]
    IN IF btn.type = "BTN_START" /\ r.ret
       THEN sendWorkoutEvent(c1, "EVENT_WORKOUT_START", NoLap, t)
       ELSE IF btn.type = "BTN_LAP" /\ Workout_GetState(c.w) = STATE_RUNNING
       THEN [c EXCEPT !.w = Workout_Stop(c.w).w]
       ELSE c

\* the body of the loop of ControlTask for the button event btn received
ControlTask(c, btn, t) ==
    LET currentState == Workout_GetState(c.w)
    IN CASE btn.type = "BTN_START" ->
               LET w1 == IF currentState = STATE_COMPLETED THEN Workout_Reset(c.w) ELSE c.w
                   r == Workout_Start(w1, t)
                   c1 == [c EXCEPT !.w = r.w]
               IN IF r.ret THEN sendWorkoutEvent(c1, "EVENT_WORKOUT_START", NoLap, t) ELSE c1
         [] btn.type = "BTN_LAP" ->
               IF currentState = STATE_RUNNING
               THEN LET r == Workout_RecordLap(c.w, t)
                        c1 == [c EXCEPT !.w = r.w]
                    IN IF r.ret
                       THEN IF Workout_GetState(r.w) = STATE_COMPLETED
                            THEN sendWorkoutEvent(c1, "EVENT_WORKOUT_DONE", r.lap, t)
                            ELSE sendWorkoutEvent(c1, "EVENT_LAP_COMPLETE", r.lap, t)
                       ELSE c1
               ELSE c
         [] btn.type = "BTN_STOP" ->
               IF currentState = STATE_RUNNING
               THEN [c EXCEPT !.w = Workout_Pause(c.w, t).w]
               ELSE IF currentState = STATE_PAUSED
               THEN LET r == Workout_Stop(c.w)
                        c1 == [c EXCEPT !.w = r.w]
                    IN IF r.ret THEN sendWorkoutEvent(c1, "EVENT_WORKOUT_STOP", NoLap, t) ELSE c1
               ELSE c
         [] btn.type = "BTN_MODE_NEXT" ->
               IF currentState = STATE_IDLE \/ currentState = STATE_COMPLETED
               THEN LET w1 == IF currentState = STATE_COMPLETED THEN Workout_Reset(c.w) ELSE c.w
                    IN [c EXCEPT !.w = Workout_CycleMode(w1).w]
               ELSE c
         [] btn.type = "BTN_STATUS" -> sendWorkoutEvent(c, "EVENT_STATUS_UPDATE", NoLap, t)
         [] OTHER -> c

\* the input driver reports a button event to the button-only control task
Button_Press ==
    /\ calls.btn < MaxTaskPresses
    /\ Len(g_buttonQueue) < MaxPending
    /\ \E type \in ButtonEventType_t :
          g_buttonQueue' = QueueSend(g_buttonQueue, BUTTON_QUEUE_LENGTH, [type |-> type]).q
    /\ calls' = [calls EXCEPT !.btn = calls.btn + 1]
    /\ UNCHANGED <<notInput, g_bleCtrlQueue, bleCb, ret>>

\* xQueueReceive(g_buttonQueue, &btn, portMAX_DELAY) returns and the loop body runs
ControlTask_Receive ==
    /\ g_buttonQueue # <<>>
    /\ SetCS(ControlTask(CS, Head(g_buttonQueue), now))
    /\ g_buttonQueue' = Tail(g_buttonQueue)
    /\ UNCHANGED <<clockVars, g_bleCtrlQueue, polled, ringVars, bleCb, txTaskVars, calls, ret,
                   bufLog, lastOp>>

\* the millisecond clock advances while the task waits for a button
TaskClockAdvance ==
    /\ ticks < MaxTaskTicks
    /\ g_buttonQueue = <<>>
    /\ \E d \in LifeSteps : now' = Add32(now, d)
    /\ ticks' = ticks + 1
    /\ UNCHANGED <<pausedMs, lifeVars, notLife, ret, lastOp>>

ButtonTaskNext ==
    \/ Button_Press
    \/ ControlTask_Receive
    \/ TaskClockAdvance

SpecButtonTask == Init /\ [][ButtonTaskNext]_vars

\* the step is one pass of the loop of the button-only control task
IsTaskPass == g_buttonQueue # <<>> /\ g_buttonQueue' = Tail(g_buttonQueue)

\* C33: each BTN_LAP the button-only control task consumes while the lifecycle
\* is Running records exactly one lap (the lap current before the press, and
\* no other lap record changes) and hands exactly one event to the transmit
\* queue, EVENT_WORKOUT_DONE if that lap was the last one of the mode and
\* EVENT_LAP_COMPLETE otherwise; a BTN_LAP consumed in any other lifecycle
\* state changes nothing and sends nothing.
C33_LapPressRecordsOneLap ==
    [][(IsTaskPass /\ Head(g_buttonQueue).type = "BTN_LAP") =>
          IF s_session.state = STATE_RUNNING
          THEN LET n == s_session.current_lap
                   final == n >= s_session.config.total_laps
                   evt == [type |-> IF final THEN "EVENT_WORKOUT_DONE" ELSE "EVENT_LAP_COMPLETE",
                           timestamp_ms |-> now, current_lap |-> s_session'.current_lap,
                           lap_data |-> s_session'.laps[n - 1], seq |-> nextSeq]
               IN /\ s_session'.laps[n - 1].lap_number = n
                  /\ \A i \in 0 .. MAX_LAPS - 1 : i # n - 1 => s_session'.laps[i] = s_session.laps[i]
                  /\ s_session'.state = IF final THEN STATE_COMPLETED ELSE STATE_RUNNING
                  /\ s_session'.current_lap = IF final THEN n ELSE n + 1
                  /\ nextSeq' = nextSeq + 1
                  /\ g_eventQueue' = IF Len(g_eventQueue) < EVENT_QUEUE_LENGTH
                                     THEN Append(g_eventQueue, evt) ELSE g_eventQueue
          ELSE /\ WS' = WS
               /\ g_eventQueue' = g_eventQueue
               /\ nextSeq' = nextSeq]_vars

\* the last lap of a 2x2000m workout has just been recorded and reported
C33_Witness ==
    /\ s_session.state = STATE_COMPLETED
    /\ s_session.config.mode = "MODE_2x2000M"
    /\ s_session.laps[0].lap_number = 1 /\ s_session.laps[1].lap_number = 2
    /\ Len(g_eventQueue) = 3
    /\ g_eventQueue[1].type = "EVENT_WORKOUT_START"
    /\ g_eventQueue[2].type = "EVENT_LAP_COMPLETE"
    /\ g_eventQueue[3].type = "EVENT_WORKOUT_DONE"
    /\ g_eventQueue[3].lap_data = s_session.laps[1]
    /\ g_buttonQueue = <<>>

C35_StaleConfirmationKeepsWait ==
    [][(/\ IsLoopIteration
        /\ s_currentState = CTRL_STATE_RUNNING
        /\ g_buttonQueue # <<>> /\ Head(g_buttonQueue).type = "BTN_LAP"
        /\ g_bleCtrlQueue # <<>> /\ Head(g_bleCtrlQueue).type = "BLE_CTRL_EVT_HR_DONE") =>
          /\ s_currentState' = CTRL_STATE_HR_MEASUREMENT
          /\ s_hrWait'.active
          /\ waitLog'.exits = 0]_vars

(***************************************************************************)
(* Button handler specification: handleButtonEvent applied to every        *)
(* lifecycle state that calls of the lifecycle API produce.  (In the runs  *)
(* of the coordinator loop itself the lifecycle never gets to Completed,   *)
(* because exitHrWaitState records no lap on a paused lifecycle.)          *)
(***************************************************************************)

\* the coordinator handles a button event; lastOp keeps the kind of the event
Call_handleButtonEvent ==
    /\ calls.btn < MaxPresses
    /\ \E type \in ButtonEventType_t :
          /\ SetCS(handleButtonEvent(CS, [type |-> type], now))
          /\ lastOp' = type
    /\ calls' = [calls EXCEPT !.btn = calls.btn + 1]
    /\ UNCHANGED <<clockVars, queueVars, polled, ringVars, bleCb, txTaskVars, ret, bufLog>>

HandlerNext ==
    \/ Call_handleButtonEvent
    \/ Call_Start
    \/ Call_RecordLap
    \/ ClockAdvance

SpecHandler == Init /\ [][HandlerNext]_vars

C37_ButtonsIgnoredDuringWait ==
    [][(/\ IsLoopIteration
        /\ s_currentState = CTRL_STATE_HR_MEASUREMENT
        /\ g_buttonQueue # <<>> /\ Head(g_buttonQueue).type # "BTN_STOP") =>
          LET c2 == IF g_bleCtrlQueue # <<>>
                    THEN handleBleCtrlEvent(CS, Head(g_bleCtrlQueue), now) ELSE CS
          IN /\ CS' = hrTimeoutCheck(c2, now)
             /\ g_buttonQueue' = Tail(g_buttonQueue)
             /\ (/\ g_bleCtrlQueue = <<>> \/ Head(g_bleCtrlQueue).type # "BLE_CTRL_EVT_HR_DONE"
                 /\ ~Gt32(WaitElapsed, U(HR_CONFIRM_TIMEOUT_MS))) =>
                   /\ s_currentState' = CTRL_STATE_HR_MEASUREMENT
                   /\ s_hrWait' = s_hrWait
                   /\ WS' = WS
                   /\ g_eventQueue' = g_eventQueue
                   /\ waitLog' = waitLog]_vars

\* an HR wait that is still open, with its first start time, 5000 ms after it
\* began and after three button events were consumed
C37_Witness ==
    /\ s_currentState = CTRL_STATE_HR_MEASUREMENT /\ s_hrWait.active
    /\ waitLog.entered /\ waitLog.exits = 0
    /\ calls.btn = MaxPresses /\ g_buttonQueue = <<>> /\ polled
    /\ WaitElapsed = U(HR_CONFIRM_TIMEOUT_MS)
    /\ s_session.state = STATE_PAUSED /\ s_pauseStartMs = s_hrWait.startMs
    /\ s_session.laps[0] = NoLap

\* C38 as stated: for every recorded lap n > 1, whatever Pause/Start calls
\* came between the laps, split_time_ms(n) - split_time_ms(n-1) equals
\* lap_time_ms(n).
C38_SplitDifferenceIsLapTime ==
    [][(lastOp' = "Workout_RecordLap" /\ ret'.ok /\ s_session.current_lap > 1) =>
          LET n == s_session.current_lap
              laps == s_session'.laps
          IN Sub32(laps[n - 1].split_time_ms, laps[n - 2].split_time_ms)
                = laps[n - 1].lap_time_ms]_vars

\* C38, amended: the lap time includes the time spent paused during the lap
\* and the split time does not.  When lap n is recorded the lap times recorded
\* so far sum to the split time plus the paused time accumulated in the
\* session, and for n > 1 lap_time_ms(n) is split_time_ms(n) -
\* split_time_ms(n-1) plus the paused time accumulated since lap n-1 was
\* recorded; the two are equal when no time was spent paused during lap n.
C38_LapTimesSumToSplitPlusPaused ==
    [][(lastOp' = "Workout_RecordLap" /\ ret'.ok) =>
          LET n == s_session.current_lap
              laps == s_session'.laps
              sum[i \in 0 .. MAX_LAPS] ==
                  IF i = 0 THEN Zero32 ELSE Add32(sum[i - 1], laps[i - 1].lap_time_ms)
              pausedBefore == IF n = 1 THEN Zero32
                              ELSE Sub32(sum[n - 1], laps[n - 2].split_time_ms)
              prev == IF n = 1 THEN Zero32 ELSE laps[n - 2].split_time_ms
          IN /\ sum[n] = Add32(laps[n - 1].split_time_ms, s_totalPausedMs)
             /\ laps[n - 1].lap_time_ms =
                   Add32(Sub32(laps[n - 1].split_time_ms, prev),
                         Sub32(s_totalPausedMs, pausedBefore))
             /\ s_totalPausedMs = pausedBefore =>
                   Sub32(laps[n - 1].split_time_ms, prev) = laps[n - 1].lap_time_ms]_vars

\* lap 2 has been recorded after a pause during the lap: its lap time is not
\* the difference of the splits
C38_Witness ==
    /\ lastOp = "Workout_RecordLap" /\ ret.ok
    /\ s_session.laps[1].lap_number = 2 /\ s_session.laps[2].lap_number = 0
    /\ s_totalPausedMs = U(1500)
    /\ s_session.laps[1].lap_time_ms = U(3000)
    /\ Sub32(s_session.laps[1].split_time_ms, s_session.laps[0].split_time_ms) = U(1500)

\* C39: between iterations of the coordinator loop the HR-wait active flag is
\* true if and only if the coordinator state is HrWait.
C39_ActiveIffHrWait ==
    s_hrWait.active <=> s_currentState = CTRL_STATE_HR_MEASUREMENT

\* a second HR wait is open after the first one was left: the flag has been
\* set, cleared and set again together with the state
C39_Witness ==
    /\ s_currentState = CTRL_STATE_HR_MEASUREMENT /\ s_hrWait.active
    /\ waitLog.entered /\ waitLog.exits = 0
    /\ Gt32(s_totalPausedMs, Zero32)
    /\ calls.btn = MaxPresses

\* C40: after any sequence of Buffer_Init, Buffer_Push, Buffer_Pop and
\* Buffer_Clear the ring indices satisfy 0 <= head < N, 0 <= tail < N,
\* 0 <= count <= N and head = (tail + count) mod N, with N = BUFFER_MAX_EVENTS.
C40_RingIndicesConsistent ==
    /\ s_head \in 0 .. BUFFER_MAX_EVENTS - 1
    /\ s_tail \in 0 .. BUFFER_MAX_EVENTS - 1
    /\ s_count \in 0 .. BUFFER_MAX_EVENTS
    /\ s_head = (s_tail + s_count) % BUFFER_MAX_EVENTS

\* the ring is full and has overflowed: head has wrapped round to tail, which
\* has moved off slot 0
C40_Witness ==
    /\ s_count = BUFFER_MAX_EVENTS
    /\ s_head = s_tail /\ s_tail = MaxOverflow
    /\ lastOp = "Buffer_Push" /\ ~ret.ok

====
